---- MODULE Spec2Model ----
(***************************************************************************)
(* A model of the skald compiler pipeline (erikpe/skald):                  *)
(*   symbols.py   struct layout engine and global symbol table             *)
(*   typesys.py / typecheck.py   the type checker                          *)
(*   lower.py     the single-exit lowering pass                            *)
(*   codegen.py   the x86-64 code generator, and a small machine that      *)
(*                executes the instructions it emits                       *)
(* Source spans are dropped from every AST node: no operation modelled     *)
(* here reads them.                                                        *)
(***************************************************************************)
EXTENDS Integers, Sequences, FiniteSets, TLC

VARIABLES
    phase,      \* position of the driver (main.py) in the pipeline
    decls,      \* Program.decls restricted to StructDecl, in declaration order
    symres,     \* result of build_global_symbols: layouts and the error raised
    fn,         \* the FnDecl of the program being compiled
    lowered,    \* result of lower_program on it: the lowered FnDecl, or the error
    relowered,  \* result of lower_program on the lowered program
    asm,        \* the Codegen after emitting the lowered function
    cpu,        \* the machine running the emitted code: pc, regs, zf, mem
    log,        \* the defer statements passed and the calls made, in order
    trues,      \* how many times the extern function c answered true
    checked,    \* result of typecheck_program: the error raised, or "none"
    tcenv,      \* the TypeEnv scopes when the check of the function body ended
    subject,    \* an expression handed to _check_expr
    typed,      \* result of _check_expr on it: the type, or the error raised
    source,     \* the source text handed to the Lexer, a sequence of characters
    tokens      \* result of Lexer.tokenize: the tokens, or the error raised

symVars == <<decls, symres>>
lowerVars == <<fn, lowered, relowered>>
execVars == <<asm, cpu, log, trues>>
tcVars == <<checked, tcenv, subject, typed>>
lexVars == <<source, tokens>>
vars == <<phase, decls, symres, fn, lowered, relowered, asm, cpu, log, trues,
          checked, tcenv, subject, typed, source, tokens>>

(***************************************************************************)
(* Bounds of the model.                                                    *)
(***************************************************************************)
MaxFields == 3
MaxInnerFields == 2
MaxCycleFields == 1
MaxSize == 4
MaxExecSize == 5
MaxTrue == 2

(***************************************************************************)
(* AST: type syntax (ast_nodes.py).                                        *)
(***************************************************************************)
NamedType(n) == [k |-> "Named", name |-> n]
PtrType(t) == [k |-> "Ptr", inner |-> t]

AstBool == NamedType("bool")
AstI32 == NamedType("i32")
AstI64 == NamedType("i64")
AstUnit == NamedType("unit")

StructField(n, t) == [name |-> n, type_ast |-> t]
StructDecl(n, fs) == [name |-> n, fields |-> fs]

Param(n, t) == [name |-> n, type_ast |-> t]
FnDecl(n, ps, r, b) == [name |-> n, params |-> ps, ret |-> r, body |-> b]

\* FnSig (symbols.py): an entry of GlobalSymbols.functions
FnSig(n, ps, r, ext) == [name |-> n, params |-> ps, ret |-> r, extern |-> ext]

(***************************************************************************)
(* AST: expressions.  A Call's callee is kept as the name of the Var it    *)
(* is (the type checker rejects every other callee).  NoExpr is Python's   *)
(* None where an expression is optional.  The value of an IntLit is a      *)
(* Python int (PyInt below).  Field and Index are the nodes typecheck.py   *)
(* and codegen.py handle under these names.                                *)
(***************************************************************************)
NoExpr == [k |-> "None"]
IntLit(v) == [k |-> "IntLit", value |-> v]
BoolLit(b) == [k |-> "BoolLit", bvalue |-> b]
NullLit == [k |-> "NullLit"]
Var(n) == [k |-> "Var", name |-> n]
Call(callee, args) == [k |-> "Call", callee |-> callee, args |-> args]
Assign(t, v) == [k |-> "Assign", target |-> t, value |-> v]
Unary(op, e) == [k |-> "Unary", op |-> op, expr |-> e]
Binary(op, l, r) == [k |-> "Binary", op |-> op, left |-> l, right |-> r]
Field(base, n) == [k |-> "Field", base |-> base, name |-> n]
Index(base, index) == [k |-> "Index", base |-> base, index |-> index]

(***************************************************************************)
(* AST: statements.  A Block is the list of its statements.                *)
(***************************************************************************)
Block(stmts) == [k |-> "Block", stmts |-> stmts]
VarDecl(n, t, init) == [k |-> "VarDecl", name |-> n, type_ast |-> t, init |-> init]
DeferCall(call) == [k |-> "DeferCall", call |-> call]
If(c, t, hasElse, e) ==
    [k |-> "If", cond |-> c, then_block |-> t, has_else |-> hasElse,
     else_block |-> e]
While(c, b) == [k |-> "While", cond |-> c, body |-> b]
Return(v) == [k |-> "Return", value |-> v]
ExprStmt(e) == [k |-> "ExprStmt", expr |-> e]
Goto(l) == [k |-> "Goto", label |-> l]
LabeledBlock(l, b) == [k |-> "LabeledBlock", label |-> l, block |-> b]

(***************************************************************************)
(* Generic helpers.                                                        *)
(***************************************************************************)
Max(a, b) == IF a >= b THEN a ELSE b

SeqsUpTo(S, n) == UNION {[1..m -> S] : m \in 0..n}

Range(s) == {s[i] : i \in 1..Len(s)}

Contains(s, x) == \E i \in 1..Len(s) : s[i] = x

FieldNames == <<"a", "b", "c", "d", "e">>

\* A field list from a list of types: the fields are named a, b, c, ...
MkFields(ts) == [i \in 1..Len(ts) |-> StructField(FieldNames[i], ts[i])]

(***************************************************************************)
(* Python's int, which has no width: a sign and the digits of the          *)
(* magnitude in base 2^15, least significant first, the last digit not 0   *)
(* (zero has no digits and is not negative).  The values of the literals   *)
(* the checker folds, and the bounds it compares them with, are of this    *)
(* kind.                                                                   *)
(***************************************************************************)
DigitBits == 15

Base == 2 ^ DigitBits

\* The digit of weight Base^(i-1) of a magnitude
Digit(m, i) == IF 1 <= i /\ i <= Len(m) THEN m[i] ELSE 0

RECURSIVE Trim(_)
\* A digit sequence without its leading zeros
Trim(m) == IF m = <<>> \/ m[Len(m)] # 0 THEN m ELSE Trim(SubSeq(m, 1, Len(m) - 1))

RECURSIVE MagOf(_)
\* The magnitude of a natural number of the model
MagOf(n) == IF n = 0 THEN <<>> ELSE <<n % Base>> \o MagOf(n \div Base)

\* 2^k
MagPow2(k) ==
    [i \in 1..(k \div DigitBits + 1) |->
        IF i = k \div DigitBits + 1 THEN 2 ^ (k % DigitBits) ELSE 0]

\* The number of binary digits of a magnitude
BitLen(m) ==
    IF m = <<>> THEN 0
    ELSE DigitBits * (Len(m) - 1)
           + (CHOOSE k \in 1..DigitBits :
                 2 ^ (k - 1) <= m[Len(m)] /\ m[Len(m)] < 2 ^ k)

RECURSIVE MagCmpFrom(_, _, _)
MagCmpFrom(a, b, i) ==
    IF i = 0 THEN 0
    ELSE IF a[i] # b[i] THEN (IF a[i] < b[i] THEN -1 ELSE 1)
    ELSE MagCmpFrom(a, b, i - 1)

\* -1, 0 or 1 as a < b, a = b or a > b
MagCmp(a, b) ==
    IF Len(a) # Len(b) THEN (IF Len(a) < Len(b) THEN -1 ELSE 1)
    ELSE MagCmpFrom(a, b, Len(a))

RECURSIVE MagAddFrom(_, _, _, _, _)
MagAddFrom(a, b, i, carry, acc) ==
    IF i > Max(Len(a), Len(b))
    THEN IF carry = 1 THEN Append(acc, 1) ELSE acc
    ELSE LET s == Digit(a, i) + Digit(b, i) + carry
         IN  MagAddFrom(a, b, i + 1, s \div Base, Append(acc, s % Base))

MagAdd(a, b) == MagAddFrom(a, b, 1, 0, <<>>)

RECURSIVE MagSubFrom(_, _, _, _, _)
MagSubFrom(a, b, i, borrow, acc) ==
    IF i > Len(a) THEN Trim(acc)
    ELSE LET d == Digit(a, i) - Digit(b, i) - borrow
         IN  MagSubFrom(a, b, i + 1, IF d < 0 THEN 1 ELSE 0,
                        Append(acc, IF d < 0 THEN d + Base ELSE d))

\* a - b, for a >= b
MagSub(a, b) == MagSubFrom(a, b, 1, 0, <<>>)

RECURSIVE MagMulDigitFrom(_, _, _, _, _)
MagMulDigitFrom(a, d, i, carry, acc) ==
    IF i > Len(a) THEN Trim(Append(acc, carry))
    ELSE LET p == a[i] * d + carry
         IN  MagMulDigitFrom(a, d, i + 1, p \div Base, Append(acc, p % Base))

\* a * d, for one digit d
MagMulDigit(a, d) == MagMulDigitFrom(a, d, 1, 0, <<>>)

\* a * Base^n
MagShlDigits(a, n) == IF a = <<>> THEN <<>> ELSE [i \in 1..n |-> 0] \o a

\* a * 2^k and the integer part of a / 2^k
MagShl(a, k) ==
    MagShlDigits(MagMulDigit(a, 2 ^ (k % DigitBits)), k \div DigitBits)

MagShr(a, k) ==
    LET n == k \div DigitBits
        d == 2 ^ (k % DigitBits)
    IN  IF n >= Len(a) THEN <<>>
        ELSE Trim([i \in 1..(Len(a) - n) |->
                     a[i + n] \div d + (Digit(a, i + n + 1) % d) * (Base \div d)])

RECURSIVE MagMulFrom(_, _, _, _)
MagMulFrom(a, b, i, acc) ==
    IF i > Len(b) THEN acc
    ELSE MagMulFrom(a, b, i + 1,
                    MagAdd(acc, MagShlDigits(MagMulDigit(a, b[i]), i - 1)))

MagMul(a, b) == MagMulFrom(a, b, 1, <<>>)

\* The digit q with b * q <= r < b * (q + 1), for r < b * Base and the last
\* digit of b at least Base / 2: at most 2 below the quotient of the two
\* leading digits of r by the leading digit of b
QuotientDigit(r, b) ==
    LET n == Len(b)
        lead == Digit(r, n + 1) * Base + Digit(r, n)
        est == IF lead \div b[n] >= Base THEN Base - 1 ELSE lead \div b[n]
    IN  CHOOSE q \in Max(0, est - 2)..est :
            /\ MagCmp(MagMulDigit(b, q), r) <= 0
            /\ MagCmp(MagMulDigit(b, q + 1), r) > 0

RECURSIVE MagDivModFrom(_, _, _, _, _)
\* Long division, from the leading digit of a down
MagDivModFrom(a, b, i, q, r) ==
    IF i = 0 THEN [q |-> Trim(q), r |-> r]
    ELSE LET r2 == Trim(<<a[i]>> \o r)
             d == QuotientDigit(r2, b)
         IN  MagDivModFrom(a, b, i - 1, <<d>> \o q, MagSub(r2, MagMulDigit(b, d)))

\* Long division of a by b, the leading digit of b at least Base / 2
MagDivModNormal(a, b) == MagDivModFrom(a, b, Len(a), <<>>, <<>>)

\* The quotient and the remainder a normalised division shifted by k bits
\* has found
MagDivModUnshift(res, k) == [q |-> res.q, r |-> MagShr(res.r, k)]

\* The quotient and the remainder of a by b, divided after a shift of both
\* by k bits
MagDivModShifted(a, b, k) ==
    MagDivModUnshift(MagDivModNormal(MagShl(a, k), MagShl(b, k)), k)

\* The quotient and the remainder of a by b, for b > 0: both are shifted
\* until the leading digit of b is at least Base / 2, then divided
MagDivMod(a, b) == MagDivModShifted(a, b, DigitBits * Len(b) - BitLen(b))

PyInt(neg, mag) == [neg |-> neg /\ mag # <<>>, mag |-> mag]

\* The int of a natural number of the model
IntOf(n) == PyInt(FALSE, MagOf(n))

\* 2 ** k
IntPow2(k) == PyInt(FALSE, MagPow2(k))

IntIsZero(x) == x.mag = <<>>

RECURSIVE MagValue(_)
\* The natural number of a magnitude, for one the model's numbers hold
MagValue(m) == IF m = <<>> THEN 0 ELSE m[1] + Base * MagValue(Tail(m))

\* The number of the model an int is, for one within 31 bits
IntValue(x) == IF x.neg THEN 0 - MagValue(x.mag) ELSE MagValue(x.mag)

\* -x
IntNeg(x) == PyInt(~x.neg, x.mag)

\* x + y
IntAdd(x, y) ==
    IF x.neg = y.neg THEN PyInt(x.neg, MagAdd(x.mag, y.mag))
    ELSE IF MagCmp(x.mag, y.mag) >= 0 THEN PyInt(x.neg, MagSub(x.mag, y.mag))
    ELSE PyInt(y.neg, MagSub(y.mag, x.mag))

\* x - y
IntSub(x, y) == IntAdd(x, IntNeg(y))

\* x * y
IntMul(x, y) == PyInt(x.neg # y.neg, MagMul(x.mag, y.mag))

\* x <= y
IntLE(x, y) ==
    IF x.neg # y.neg THEN x.neg
    ELSE IF x.neg THEN MagCmp(x.mag, y.mag) >= 0
    ELSE MagCmp(x.mag, y.mag) <= 0

\* The remainder of the sign of y, from the remainder r of the magnitudes
SignedRemainder(x, y, r) ==
    IF r = <<>> THEN IntOf(0)
    ELSE IF x.neg = y.neg THEN PyInt(y.neg, r)
    ELSE PyInt(y.neg, MagSub(y.mag, r))

\* x % y of Python, for y # 0: the remainder has the sign of y
IntMod(x, y) == SignedRemainder(x, y, MagDivMod(x.mag, y.mag).r)

(***************************************************************************)
(* Python's float, an IEEE 754 double: sign, a significand of at most      *)
(* MantissaBits binary digits and a power of two.  The exponents of the    *)
(* model stay far inside the double's range.                               *)
(***************************************************************************)
MantissaBits == 53

Float(neg, mant, exp) == [neg |-> neg, mant |-> mant, exp |-> exp]

\* The significand q without its last drop binary digits, rounded to the
\* nearest, a tie going to the even significand; q is exact when the
\* division left no remainder
RoundHalfEven(q, kept, low, half, exact) ==
    IF low > half \/ (low = half /\ (~exact \/ kept[1] % 2 = 1))
    THEN MagAdd(kept, MagOf(1))
    ELSE kept

\* The double nearest to qr.q * 2^(-s), of which drop binary digits are more
\* than a significand holds
FloatOfQuotient(neg, qr, drop, s) ==
    Float(neg,
          RoundHalfEven(qr.q, MagShr(qr.q, drop), qr.q[1] % 2 ^ drop,
                        2 ^ (drop - 1), qr.r = <<>>),
          drop - s)

\* The double nearest to the quotient the division scaled by 2^s has found
FloatOfScaled(neg, qr, s) ==
    FloatOfQuotient(neg, qr, BitLen(qr.q) - MantissaBits, s)

\* x / y for x # 0, the quotient scaled by 2^s to have one or two binary
\* digits more than a significand
TrueDivScaled(x, y, s) ==
    FloatOfScaled(x.neg # y.neg,
                  MagDivMod(MagShl(x.mag, Max(s, 0)), MagShl(y.mag, Max(0 - s, 0))),
                  s)

\* x / y of Python for two ints, y # 0: the quotient rounded to the nearest
\* double, a tie going to the even significand
IntTrueDiv(x, y) ==
    IF IntIsZero(x) THEN Float(FALSE, <<>>, 0)
    ELSE TrueDivScaled(x, y,
                       MantissaBits + 1 - (BitLen(x.mag) - BitLen(y.mag)))

\* int(f): the double cut toward zero
IntOfFloat(f) ==
    PyInt(f.neg, IF f.exp >= 0 THEN MagShl(f.mant, f.exp)
                 ELSE MagShr(f.mant, 0 - f.exp))

(***************************************************************************)
(* symbols.py: errors are modelled as a record; NoErr is "no exception".   *)
(***************************************************************************)
NoErr == [kind |-> "none", path |-> <<>>]
SymbolError(kind, path) == [kind |-> kind, path |-> path]

\* _BUILTIN_SIZES: name -> (size, align)
BuiltinSized == {"i64", "u64", "i32", "u32", "bool", "unit"}

BuiltinSize(n) ==
    CASE n \in {"i64", "u64"} -> 8
      [] n \in {"i32", "u32"} -> 4
      [] n = "bool" -> 1
      [] n = "unit" -> 0

BuiltinAlign(n) ==
    CASE n \in {"i64", "u64"} -> 8
      [] n \in {"i32", "u32"} -> 4
      [] n = "bool" -> 1
      [] n = "unit" -> 1

\* Faulty variants of _align_up: no rounding at all; rounding to the next multiple even
\* when the value is one already.
AlignUpNoRound(value, align) == value

AlignUpPastMultiple(value, align) ==
    IF align <= 1 THEN value ELSE ((value + align) \div align) * align

\* _align_up(value, align)
AlignUp(value, align) ==
    IF align <= 1 THEN value ELSE ((value + align - 1) \div align) * align

FieldLayout(n, t, off, sz, al) ==
    [name |-> n, type_ast |-> t, offset |-> off, size |-> sz, align |-> al]

StructLayout(n, fls, sz, al) ==
    [name |-> n, fields |-> fls, size |-> sz, align |-> al]

\* structs is the dict name -> StructDecl, kept as the list of its values in
\* insertion order (the order structs.items() iterates in).
HasStruct(structs, n) == \E i \in 1..Len(structs) : structs[i].name = n

GetStruct(structs, n) ==
    structs[CHOOSE i \in 1..Len(structs) : structs[i].name = n]

\* The path joined into the "Illegal recursive struct" message.
CyclePath(visiting, name) == visiting \o <<name>>

RECURSIVE ComputeStructLayout(_, _, _, _)
RECURSIVE TypeSizeAlign(_, _, _)
RECURSIVE LayoutFields(_, _, _, _)

\* The state threaded through the layout recursion: the layouts dict (a function
\* from the names laid out so far), the visiting list, and the exception raised.
LState(layouts, visiting, err) ==
    [layouts |-> layouts, visiting |-> visiting, err |-> err]

\* Faulty variant of _type_size_align: a pointer field recurses into its pointee's
\* layout before answering 8/8.
TypeSizeAlignPtrRecurse(type_ast, structs, st) ==
    IF type_ast.k = "Ptr"
    THEN IF type_ast.inner.k = "Named" /\ HasStruct(structs, type_ast.inner.name)
         THEN [size |-> 8, align |-> 8,
               st |-> ComputeStructLayout(type_ast.inner.name,
                         GetStruct(structs, type_ast.inner.name), structs, st)]
         ELSE [size |-> 8, align |-> 8, st |-> st]
    ELSE IF HasStruct(structs, type_ast.name)
    THEN LET r == ComputeStructLayout(type_ast.name,
                      GetStruct(structs, type_ast.name), structs, st)
         IN  IF r.err.kind # "none"
             THEN [size |-> 0, align |-> 1, st |-> r]
             ELSE [size |-> r.layouts[type_ast.name].size,
                   align |-> r.layouts[type_ast.name].align, st |-> r]
    ELSE [size |-> 0, align |-> 1,
          st |-> [st EXCEPT !.err = SymbolError("unknown_type", <<type_ast.name>>)]]

\* _type_size_align(type_ast, structs, layouts, visiting) -> (size, align)
TypeSizeAlign(type_ast, structs, st) ==
    IF type_ast.k = "Ptr"
    THEN [size |-> 8, align |-> 8, st |-> st]
    ELSE IF type_ast.name \in BuiltinSized
    THEN [size |-> BuiltinSize(type_ast.name),
          align |-> BuiltinAlign(type_ast.name), st |-> st]
    ELSE IF HasStruct(structs, type_ast.name)
    THEN LET r == ComputeStructLayout(type_ast.name,
                      GetStruct(structs, type_ast.name), structs, st)
         IN  IF r.err.kind # "none"
             THEN [size |-> 0, align |-> 1, st |-> r]
             ELSE [size |-> r.layouts[type_ast.name].size,
                   align |-> r.layouts[type_ast.name].align, st |-> r]
    ELSE [size |-> 0, align |-> 1,
          st |-> [st EXCEPT !.err = SymbolError("unknown_type", <<type_ast.name>>)]]

\* The loop over decl.fields of _compute_struct_layout, from field i on.
\* acc = [offset, struct_align, field_layouts, st]
LayoutFields(fields, i, structs, acc) ==
    IF i > Len(fields) \/ acc.st.err.kind # "none"
    THEN acc
    ELSE LET sa == TypeSizeAlign(fields[i].type_ast, structs, acc.st)
             off == AlignUp(acc.offset, sa.align)
         IN  IF sa.st.err.kind # "none"
             THEN [acc EXCEPT !.st = sa.st]
             ELSE LayoutFields(fields, i + 1, structs,
                    [offset |-> off + sa.size,
                     struct_align |-> IF sa.align > acc.struct_align
                                      THEN sa.align ELSE acc.struct_align,
                     field_layouts |-> Append(acc.field_layouts,
                          FieldLayout(fields[i].name, fields[i].type_ast,
                                      off, sa.size, sa.align)),
                     st |-> sa.st])

\* _compute_struct_layout(name, decl, structs, layouts, visiting)
ComputeStructLayout(name, decl, structs, st) ==
    IF name \in DOMAIN st.layouts
    THEN st
    ELSE IF Contains(st.visiting, name)
    THEN [st EXCEPT !.err = SymbolError("recursive", CyclePath(st.visiting, name))]
    ELSE LET entered == [st EXCEPT !.visiting = Append(st.visiting, name)]
             acc == LayoutFields(decl.fields, 1, structs,
                       [offset |-> 0, struct_align |-> 1,
                        field_layouts |-> <<>>, st |-> entered])
         IN  IF acc.st.err.kind # "none"
             THEN acc.st
             ELSE LET size == AlignUp(acc.offset, acc.struct_align)
                      layout == StructLayout(name, acc.field_layouts, size,
                                             acc.struct_align)
                  IN  [layouts |-> [n \in DOMAIN acc.st.layouts \cup {name} |->
                                      IF n = name THEN layout
                                      ELSE acc.st.layouts[n]],
                       visiting |-> SubSeq(acc.st.visiting, 1,
                                           Len(acc.st.visiting) - 1),
                       err |-> NoErr]

\* The first loop of build_global_symbols: a repeated struct name raises.
DuplicateStruct(ds) ==
    \E i, j \in 1..Len(ds) : i < j /\ ds[i].name = ds[j].name

RECURSIVE LayoutAll(_, _, _)
\* The second loop of build_global_symbols: every struct, in declaration
\* order, each with a fresh visiting list.
LayoutAll(structs, i, st) ==
    IF i > Len(structs) \/ st.err.kind # "none"
    THEN st
    ELSE LayoutAll(structs, i + 1,
            ComputeStructLayout(structs[i].name, structs[i], structs,
                                [st EXCEPT !.visiting = <<>>]))

EmptyLayouts == [n \in {} |-> 0]

\* build_global_symbols(program), its struct part
BuildGlobalSymbolsResult(ds) ==
    IF DuplicateStruct(ds)
    THEN LState(EmptyLayouts, <<>>, SymbolError("duplicate", <<>>))
    ELSE LayoutAll(ds, 1, LState(EmptyLayouts, <<>>, NoErr))


(***************************************************************************)
(* lower.py: the lowering pass.  The Lowerer's state is its temp_id; err   *)
(* is the ValueError raised ("none" while nothing was raised).  The env    *)
(* dict the pass threads through is only ever written, so it is left out.  *)
(***************************************************************************)
LowerState(id, err) == [temp_id |-> id, err |-> err]

LowerRes(stmts, ls) == [stmts |-> stmts, ls |-> ls]

LowerRaise(ls, msg) == LowerRes(<<>>, [ls EXCEPT !.err = msg])

\* _is_unit_type(type_ast)
IsUnitType(type_ast) == type_ast.k = "Named" /\ type_ast.name = "unit"

\* The names lowering synthesizes.
ExitLabel(fname) == "__fn_exit_" \o fname
RetVarName(fname) == "__ret_" \o fname
DeferTempName(fname, id) == "__defer_" \o fname \o "_" \o ToString(id)

\* ret_var is None in a unit function
NoRetVar == ""

\* _default_value_expr(type_ast, span): the expression, or the error raised
DefaultValueErr(type_ast) ==
    IF type_ast.k = "Ptr" THEN "none"
    ELSE IF type_ast.name \in {"i64", "u64", "i32", "u32", "bool", "unit"}
    THEN "none"
    ELSE "No default value for struct return type"

DefaultValueExpr(type_ast) ==
    IF type_ast.k = "Ptr" THEN NullLit
    ELSE IF type_ast.name \in {"i64", "u64", "i32", "u32"} THEN IntLit(IntOf(0))
    ELSE IF type_ast.name = "bool" THEN BoolLit(FALSE)
    ELSE NullLit

\* The loop of _lower_defer_call over zip(call.args, fn.params): the temporaries
\* declared for arguments i.. of the call, numbered from id on.
RECURSIVE DeferTemps(_, _, _, _)
DeferTemps(args, sig, i, id) ==
    IF i > Len(args) THEN <<>>
    ELSE <<VarDecl(DeferTempName(sig.name, id), sig.params[i].type_ast, args[i])>>
            \o DeferTemps(args, sig, i + 1, id + 1)

\* Faulty variant of _lower_defer_call: the deferred call keeps its own arguments.
LowerDeferCallNoCapture(stmt, functions, ls) ==
    LowerRes(<<stmt>>, ls)

\* _lower_defer_call(stmt, env)
LowerDeferCall(stmt, functions, ls) ==
    LET call == stmt.call IN
    IF call.callee \notin DOMAIN functions
    THEN LowerRaise(ls, "Unknown function in defer")
    ELSE LET sig == functions[call.callee]
             n == Len(call.args)
         IN  IF n # Len(sig.params)
             THEN LowerRaise(ls, "defer arg count mismatch")
             ELSE LowerRes(
                    DeferTemps(call.args, sig, 1, ls.temp_id)
                      \o <<DeferCall(Call(call.callee,
                             [i \in 1..n |->
                                Var(DeferTempName(sig.name, ls.temp_id + i - 1))]))>>,
                    [ls EXCEPT !.temp_id = ls.temp_id + n])

\* Faulty variant of the Return case of _lower_stmt: the return is kept after the
\* assignment instead of becoming a goto.
LowerReturnKeepsReturn(stmt, ret_var, exit_label, ls) ==
    IF stmt.value # NoExpr
    THEN IF ret_var = NoRetVar
         THEN LowerRaise(ls, "Return value in unit function")
         ELSE LowerRes(<<ExprStmt(Assign(Var(ret_var), stmt.value)),
                         Return(Var(ret_var))>>, ls)
    ELSE LowerRes(<<Goto(exit_label)>>, ls)

\* The Return case of _lower_stmt
LowerReturn(stmt, ret_var, exit_label, ls) ==
    IF stmt.value # NoExpr
    THEN IF ret_var = NoRetVar
         THEN LowerRaise(ls, "Return value in unit function")
         ELSE LowerRes(<<ExprStmt(Assign(Var(ret_var), stmt.value)),
                         Goto(exit_label)>>, ls)
    ELSE LowerRes(<<Goto(exit_label)>>, ls)

RECURSIVE LowerBlock(_, _, _, _, _)
RECURSIVE LowerStmt(_, _, _, _, _)

\* _lower_stmt(stmt, ret_var, exit_label, env) -> list of statements
LowerStmt(stmt, ret_var, exit_label, functions, ls) ==
    CASE stmt.k = "Block" ->
           LET r == LowerBlock(stmt.stmts, ret_var, exit_label, functions, ls)
           IN  LowerRes(<<Block(r.stmts)>>, r.ls)
      [] stmt.k = "VarDecl" -> LowerRes(<<stmt>>, ls)
      [] stmt.k = "DeferCall" -> LowerDeferCall(stmt, functions, ls)
      [] stmt.k = "If" ->
           LET t == LowerBlock(stmt.then_block, ret_var, exit_label, functions, ls)
               e == IF stmt.has_else /\ t.ls.err = "none"
                    THEN LowerBlock(stmt.else_block, ret_var, exit_label,
                                    functions, t.ls)
                    ELSE LowerRes(<<>>, t.ls)
           IN  LowerRes(<<If(stmt.cond, t.stmts, stmt.has_else, e.stmts)>>, e.ls)
      [] stmt.k = "While" ->
           LET r == LowerBlock(stmt.body, ret_var, exit_label, functions, ls)
           IN  LowerRes(<<While(stmt.cond, r.stmts)>>, r.ls)
      [] stmt.k = "Return" -> LowerReturn(stmt, ret_var, exit_label, ls)
      [] stmt.k = "ExprStmt" -> LowerRes(<<stmt>>, ls)
      [] stmt.k \in {"Goto", "LabeledBlock"} -> LowerRes(<<stmt>>, ls)
      [] OTHER -> LowerRaise(ls, "Unsupported statement")

\* _lower_block(block, ret_var, exit_label, env)
LowerBlock(stmts, ret_var, exit_label, functions, ls) ==
    IF Len(stmts) = 0 \/ ls.err # "none"
    THEN LowerRes(<<>>, ls)
    ELSE LET h == LowerStmt(Head(stmts), ret_var, exit_label, functions, ls)
             t == LowerBlock(Tail(stmts), ret_var, exit_label, functions, h.ls)
         IN  LowerRes(h.stmts \o t.stmts, t.ls)

\* Faulty variant of _lower_fn: the exit block is prepended, not appended.
LowerFnExitFirst(f, functions, ls) ==
    LET exit_label == ExitLabel(f.name)
        ret_var == IF IsUnitType(f.ret) THEN NoRetVar ELSE RetVarName(f.name)
        body == LowerBlock(f.body, ret_var, exit_label, functions, ls)
        exit_stmts == IF ret_var # NoRetVar THEN <<Return(Var(ret_var))>>
                      ELSE <<Return(NoExpr)>>
    IN  [err |-> body.ls.err, temp_id |-> body.ls.temp_id,
         fn |-> FnDecl(f.name, f.params, f.ret,
                       <<LabeledBlock(exit_label, exit_stmts)>> \o body.stmts)]

\* _lower_fn with an exit block that returns without reading the return
\* variable
LowerFnBareExit(f, functions, ls) ==
    LET exit_label == ExitLabel(f.name)
        ret_var == IF IsUnitType(f.ret) THEN NoRetVar ELSE RetVarName(f.name)
        body == LowerBlock(f.body, ret_var, exit_label, functions, ls)
        err == IF body.ls.err # "none" THEN body.ls.err
               ELSE IF ret_var # NoRetVar THEN DefaultValueErr(f.ret)
               ELSE "none"
        decl == IF ret_var # NoRetVar
                THEN <<VarDecl(ret_var, f.ret, DefaultValueExpr(f.ret))>>
                ELSE <<>>
    IN  [err |-> err, temp_id |-> body.ls.temp_id,
         fn |-> IF err # "none" THEN f
                ELSE FnDecl(f.name, f.params, f.ret,
                       decl \o body.stmts
                            \o <<LabeledBlock(exit_label, <<Return(NoExpr)>>)>>)]

\* _lower_fn(fn): the lowered FnDecl, the error raised and the Lowerer's temp_id
LowerFn(f, functions, ls) ==
    LET exit_label == ExitLabel(f.name)
        ret_var == IF IsUnitType(f.ret) THEN NoRetVar ELSE RetVarName(f.name)
        body == LowerBlock(f.body, ret_var, exit_label, functions, ls)
        err == IF body.ls.err # "none" THEN body.ls.err
               ELSE IF ret_var # NoRetVar THEN DefaultValueErr(f.ret)
               ELSE "none"
        decl == IF ret_var # NoRetVar
                THEN <<VarDecl(ret_var, f.ret, DefaultValueExpr(f.ret))>>
                ELSE <<>>
        exit_stmts == IF ret_var # NoRetVar THEN <<Return(Var(ret_var))>>
                      ELSE <<Return(NoExpr)>>
    IN  [err |-> err, temp_id |-> body.ls.temp_id,
         fn |-> IF err # "none" THEN f
                ELSE FnDecl(f.name, f.params, f.ret,
                       decl \o body.stmts
                            \o <<LabeledBlock(exit_label, exit_stmts)>>)]

\* lower_program(program, symbols), for a program with the one FnDecl f: a
\* fresh Lowerer, temp_id = 0
LowerProgram(f, functions) == LowerFn(f, functions, LowerState(0, "none"))

NotLowered == [err |-> "none", temp_id |-> 0, fn |-> FnDecl("", <<>>, AstUnit, <<>>)]

(***************************************************************************)
(* codegen.py: the code generator.  cg is the state of one Codegen run on  *)
(* one function: the emitted lines, label_id, defer_stack, the LocalEnv    *)
(* (its scopes and its running offset) and the CodegenError raised ("none" *)
(* while nothing was raised; once raised, every later step is skipped).    *)
(*                                                                         *)
(* An emitted line is kept as a record: op the mnemonic, a and b its       *)
(* operands (a register, a label or a callee), n its immediate or          *)
(* displacement, w the width in bytes of its memory access.  Two fields    *)
(* are ghosts that no instruction reads: tag tells what a call, a jmp or   *)
(* the store into a new slot was emitted for, src is the Call it was       *)
(* emitted from or the variable the slot belongs to.                       *)
(***************************************************************************)
InsFor(op, a, b, n, w, tag, src) ==
    [op |-> op, a |-> a, b |-> b, n |-> n, w |-> w, tag |-> tag, src |-> src]

Ins(op, a, b, n, w) == InsFor(op, a, b, n, w, "", NoExpr)

\* type_size_align(type_ast, symbols): the size and alignment of a type, the
\* function codegen.py imports from symbols.py
type_size_align(type_ast, symbols) ==
    IF type_ast.k = "Ptr" THEN [size |-> 8, align |-> 8]
    ELSE CASE type_ast.name \in {"i64", "u64"} -> [size |-> 8, align |-> 8]
           [] type_ast.name \in {"i32", "u32"} -> [size |-> 4, align |-> 4]
           [] type_ast.name \in {"u8", "bool"} -> [size |-> 1, align |-> 1]
           [] type_ast.name = "unit" -> [size |-> 0, align |-> 1]
           [] OTHER -> [size |-> symbols[type_ast.name].size,
                        align |-> symbols[type_ast.name].align]

\* _align_up(value, align) of codegen.py
CgAlignUp(value, align) ==
    IF align <= 1 THEN value ELSE ((value + align - 1) \div align) * align

\* StructLayout.field_map: has the layout a field of the name, and the field
HasField(layout, name) ==
    \E i \in 1..Len(layout.fields) : layout.fields[i].name = name

FieldOf(layout, name) ==
    layout.fields[CHOOSE i \in 1..Len(layout.fields) :
                      layout.fields[i].name = name]

\* None where a type is optional
NoType == [k |-> "None"]

NewCodegen(symbols) ==
    [lines |-> <<>>, label_id |-> 0, defer_stack |-> <<>>, scopes |-> <<>>,
     offset |-> 0, symbols |-> symbols, err |-> "none", trace |-> <<>>]

Raised(cg) == cg.err # "none"

CodegenError(cg, msg) == IF Raised(cg) THEN cg ELSE [cg EXCEPT !.err = msg]

\* _emit_line(line)
EmitLine(cg, ins) ==
    IF Raised(cg) THEN cg ELSE [cg EXCEPT !.lines = Append(@, ins)]

\* _emit_line called for each line of inss in turn
EmitLines(cg, inss) ==
    IF Raised(cg) THEN cg ELSE [cg EXCEPT !.lines = @ \o inss]

\* The line emitted last marked with what it was emitted for
TagLast(cg, tag, src) ==
    IF Raised(cg) THEN cg
    ELSE [cg EXCEPT !.lines[Len(cg.lines)].tag = tag,
                    !.lines[Len(cg.lines)].src = src]

\* _new_label(prefix): the label made from the current label_id; NextLabel
\* is the state after it
LabelName(cg, prefix) == prefix \o "_" \o ToString(cg.label_id)

NextLabel(cg) == IF Raised(cg) THEN cg ELSE [cg EXCEPT !.label_id = @ + 1]

\* LocalInfo
LocalInfo(type_ast, offset) == [type_ast |-> type_ast, offset |-> offset]

\* LocalEnv.push / LocalEnv.pop
EnvPush(cg) ==
    IF Raised(cg) THEN cg ELSE [cg EXCEPT !.scopes = Append(@, <<>>)]

EnvPop(cg) ==
    IF Raised(cg) THEN cg
    ELSE IF cg.scopes = <<>> THEN CodegenError(cg, "Scope stack underflow")
    ELSE [cg EXCEPT !.scopes = SubSeq(@, 1, Len(@) - 1)]

\* LocalEnv.define(name, type_ast); the LocalInfo it returns has the offset
\* of the state it leaves
EnvDefine(cg, name, type_ast) ==
    IF Raised(cg) THEN cg
    ELSE LET sa == type_size_align(type_ast, cg.symbols)
             off == CgAlignUp(cg.offset + sa.size, sa.align)
             top == cg.scopes[Len(cg.scopes)]
         IN  [cg EXCEPT !.offset = off,
                        !.scopes[Len(cg.scopes)] =
                            [n \in DOMAIN top \cup {name} |->
                                IF n = name THEN LocalInfo(type_ast, off)
                                ELSE top[n]]]

\* LocalEnv.lookup(name): the innermost scope that has the name
EnvHas(cg, name) == \E i \in 1..Len(cg.scopes) : name \in DOMAIN cg.scopes[i]

EnvLookup(cg, name) ==
    LET i == CHOOSE j \in 1..Len(cg.scopes) :
                 /\ name \in DOMAIN cg.scopes[j]
                 /\ \A h \in (j + 1)..Len(cg.scopes) :
                        name \notin DOMAIN cg.scopes[h]
    IN  cg.scopes[i][name]

\* _push_defer_scope / _pop_defer_scope
PushDeferScope(cg) ==
    IF Raised(cg) THEN cg ELSE [cg EXCEPT !.defer_stack = Append(@, <<>>)]

PopDeferScope(cg) ==
    IF Raised(cg) THEN cg
    ELSE IF cg.defer_stack = <<>> THEN CodegenError(cg, "Defer stack underflow")
    ELSE [cg EXCEPT !.defer_stack = SubSeq(@, 1, Len(@) - 1)]

\* What one step of the generator did to defer_stack and to the scopes of
\* the LocalEnv: trace is the history of emission, which the program itself
\* does not keep
Note(cg, ev, before) ==
    IF Raised(cg) THEN cg
    ELSE [cg EXCEPT !.trace =
              Append(@, [ev |-> ev,
                         before |-> before.defer_stack,
                         after |-> cg.defer_stack,
                         scopes_before |-> Len(before.scopes),
                         scopes |-> Len(cg.scopes)])]

\* env.push(); self._push_defer_scope()
EnterScope(cg) == Note(PushDeferScope(EnvPush(cg)), "enter", cg)

\* self._pop_defer_scope(env); env.pop()
LeaveScope(cg) == Note(EnvPop(PopDeferScope(cg)), "exit", cg)

\* self.defer_stack[-1].append(stmt.call) with the call appended to the
\* outermost list
RegisterDeferOutermost(cg, call) ==
    IF Raised(cg) THEN cg
    ELSE [cg EXCEPT !.defer_stack[1] = Append(@, call)]

\* self.defer_stack[-1].append(stmt.call)
RegisterDefer(cg, call) ==
    IF Raised(cg) THEN cg
    ELSE [cg EXCEPT !.defer_stack[Len(cg.defer_stack)] = Append(@, call)]

\* FrameSizer.allocate, _size_stmt and _size_block: the running offset after
\* every VarDecl of the statements was given a slot
RECURSIVE SizeStmt(_, _, _)
RECURSIVE SizeBlock(_, _, _, _)

\* Faulty variant of _size_stmt: the body of a while is not walked
SizeStmtSkipsWhile(stmt, offset, symbols) ==
    CASE stmt.k = "Block" -> SizeBlock(stmt.stmts, 1, offset, symbols)
      [] stmt.k = "VarDecl" ->
            LET sa == type_size_align(stmt.type_ast, symbols)
            IN  CgAlignUp(offset + sa.size, sa.align)
      [] stmt.k = "If" ->
            LET t == SizeBlock(stmt.then_block, 1, offset, symbols)
            IN  IF stmt.has_else THEN SizeBlock(stmt.else_block, 1, t, symbols)
                ELSE t
      [] stmt.k = "LabeledBlock" -> SizeBlock(stmt.block, 1, offset, symbols)
      [] OTHER -> offset

SizeStmt(stmt, offset, symbols) ==
    CASE stmt.k = "Block" -> SizeBlock(stmt.stmts, 1, offset, symbols)
      [] stmt.k = "VarDecl" ->
            LET sa == type_size_align(stmt.type_ast, symbols)
            IN  CgAlignUp(offset + sa.size, sa.align)
      [] stmt.k = "If" ->
            LET t == SizeBlock(stmt.then_block, 1, offset, symbols)
            IN  IF stmt.has_else THEN SizeBlock(stmt.else_block, 1, t, symbols)
                ELSE t
      [] stmt.k = "While" -> SizeBlock(stmt.body, 1, offset, symbols)
      [] stmt.k = "LabeledBlock" -> SizeBlock(stmt.block, 1, offset, symbols)
      [] OTHER -> offset

SizeBlock(stmts, i, offset, symbols) ==
    IF i > Len(stmts) THEN offset
    ELSE SizeBlock(stmts, i + 1, SizeStmt(stmts[i], offset, symbols), symbols)

RECURSIVE SizeParams(_, _, _, _)

SizeParams(params, i, offset, symbols) ==
    IF i > Len(params) THEN offset
    ELSE LET sa == type_size_align(params[i].type_ast, symbols)
         IN  SizeParams(params, i + 1,
                        CgAlignUp(offset + sa.size, sa.align), symbols)

\* Faulty variant of _compute_frame_size: the size is not rounded up to 16
ComputeFrameSizeUnaligned(f, symbols) ==
    SizeBlock(f.body, 1, SizeParams(f.params, 1, 0, symbols), symbols)

\* _compute_frame_size(fn)
ComputeFrameSize(f, symbols) ==
    CgAlignUp(SizeBlock(f.body, 1, SizeParams(f.params, 1, 0, symbols), symbols),
              16)

\* The operand width _load_indirect_to_rax, _store_indirect_from_rax and
\* _store_from_reg choose for a type: byte, dword, and qword for all else
AccessWidth(cg, type_ast) ==
    IF type_ast.k = "None" THEN 8
    ELSE IF type_size_align(type_ast, cg.symbols).size = 1 THEN 1
    ELSE IF type_size_align(type_ast, cg.symbols).size = 4 THEN 4
    ELSE 8

\* _load_to_rax(offset, type_ast): movzx rax, byte / mov eax, dword /
\* mov rax, qword ptr [rbp - offset]
LoadToRax(cg, offset, type_ast) ==
    EmitLine(cg, Ins("load", "rax", "rbp", 0 - offset, AccessWidth(cg, type_ast)))

\* _load_indirect_to_rax(base, type_ast): movzx rax, byte / mov eax, dword /
\* mov rax, qword ptr [base]; NoType is the None _emit_unary passes
LoadIndirectToRax(cg, base, type_ast) ==
    EmitLine(cg, Ins("load", "rax", base, 0, AccessWidth(cg, type_ast)))

\* _store_rax(offset, type_ast): mov [rbp - offset], al / eax / rax
StoreRax(cg, offset, type_ast) ==
    EmitLine(cg, Ins("store", "rbp", "rax", 0 - offset, AccessWidth(cg, type_ast)))

\* _store_indirect_from_rax(base, type_ast): mov [base], al / eax / rax
StoreIndirectFromRax(cg, base, type_ast) ==
    EmitLine(cg, Ins("store", base, "rax", 0, AccessWidth(cg, type_ast)))

\* _store_from_reg(reg, offset, type_ast): mov [rbp - offset], reg (its
\* 8-bit or 32-bit alias for a 1-byte or 4-byte type)
StoreFromReg(cg, reg, offset, type_ast) ==
    EmitLine(cg, Ins("store", "rbp", reg, 0 - offset, AccessWidth(cg, type_ast)))

\* _emit_epilogue
EmitEpilogue(cg) ==
    EmitLines(cg, <<Ins("mov", "rsp", "rbp", 0, 8), Ins("pop", "rbp", "", 0, 8),
                    Ins("ret", "", "", 0, 8)>>)

ArgRegs == <<"rdi", "rsi", "rdx", "rcx", "r8", "r9">>

RECURSIVE EmitExpr(_, _)
RECURSIVE EmitArgs(_, _, _)
RECURSIVE EmitPops(_, _)

RECURSIVE EmitPopsAscending(_, _)
\* The second loop without reversed(): pop arg_regs[i] for i from the first
\* argument up to the last
EmitPopsAscending(i, cg) ==
    IF i = 0 THEN cg
    ELSE EmitLine(EmitPopsAscending(i - 1, cg), Ins("pop", ArgRegs[i], "", 0, 8))

\* _emit_call(expr): the second loop, pop arg_regs[i] for i from the last
\* argument down to the first
EmitPops(i, cg) ==
    IF Raised(cg) \/ i = 0 THEN cg
    ELSE EmitPops(i - 1, EmitLine(cg, Ins("pop", ArgRegs[i], "", 0, 8)))

\* _emit_call(expr), cg the state after the first loop: the pops and the
\* call
CallAfterArgs(expr, tag, cg) ==
    IF Raised(cg) THEN cg
    ELSE EmitLine(EmitPops(Len(expr.args), cg),
                  InsFor("call", expr.callee, "", 0, 8, tag, expr))

\* _emit_call(expr); tag is "call" for a call expression and "defer" for a
\* call emitted by _emit_defers or _emit_defers_all
EmitCall(expr, cg, tag) ==
    IF Len(expr.args) > Len(ArgRegs)
    THEN CodegenError(cg, "More than 6 arguments not supported")
    ELSE CallAfterArgs(expr, tag, EmitArgs(expr.args, 1, cg))

\* _emit_call(expr): the first loop, each argument evaluated and pushed
EmitArgs(args, i, cg) ==
    IF Raised(cg) \/ i > Len(args) THEN cg
    ELSE EmitArgs(args, i + 1,
                  EmitLine(EmitExpr(args[i], cg), Ins("push", "", "rax", 0, 8)))

\* What _lvalue_type, _expr_type, _field_type and _base_struct_type return:
\* a type, or the CodegenError raised
TypeOf(type_ast) == [type_ast |-> type_ast, err |-> "none"]

TypeError(msg) == [type_ast |-> NoType, err |-> msg]

RECURSIVE LvalueType(_, _)

\* _base_struct_type(expr), its last lines: the type has to be a NamedType
StructNameOf(ty) ==
    IF ty.err # "none" THEN ty
    ELSE IF ty.type_ast.k = "Named" THEN ty
    ELSE TypeError("Struct base must be a struct type")

\* _base_struct_type(expr): the NamedType the base of a field access has
BaseStructType(expr, cg) ==
    CASE expr.k = "Var" ->
           IF EnvHas(cg, expr.name)
           THEN StructNameOf(TypeOf(EnvLookup(cg, expr.name).type_ast))
           ELSE TypeError("Unknown local")
      [] expr.k = "Field" -> StructNameOf(LvalueType(expr, cg))
      [] OTHER -> TypeError("Struct base must be a variable or field")

\* _struct_layout(base_type) and layout.field_map.get(expr.name): the type
\* of the field, base the result of _base_struct_type
FieldOfBase(expr, base, cg) ==
    IF base.err # "none" THEN base
    ELSE IF base.type_ast.name \notin DOMAIN cg.symbols
    THEN TypeError("Unknown struct")
    ELSE IF ~HasField(cg.symbols[base.type_ast.name], expr.name)
    THEN TypeError("Unknown field")
    ELSE TypeOf(FieldOf(cg.symbols[base.type_ast.name], expr.name).type_ast)

\* _field_type(expr)
FieldType(expr, cg) == FieldOfBase(expr, BaseStructType(expr.base, cg), cg)

\* _lvalue_type(expr), its Unary "*" case, ptr_ty the result of _expr_type
PointeeType(ptr_ty) ==
    IF ptr_ty.err # "none" THEN ptr_ty
    ELSE IF ptr_ty.type_ast.k = "Ptr" THEN TypeOf(ptr_ty.type_ast.inner)
    ELSE TypeError("Cannot determine lvalue type")

\* _expr_type(expr)
ExprType(expr, cg) ==
    CASE expr.k = "Var" ->
           IF EnvHas(cg, expr.name) THEN TypeOf(EnvLookup(cg, expr.name).type_ast)
           ELSE TypeError("Unknown local")
      [] expr.k = "Field" -> LvalueType(expr, cg)
      [] expr.k = "Unary" /\ expr.op = "*" -> LvalueType(expr, cg)
      [] OTHER -> TypeError("Expression type unavailable")

\* _lvalue_type(expr)
LvalueType(expr, cg) ==
    CASE expr.k = "Var" ->
           IF EnvHas(cg, expr.name) THEN TypeOf(EnvLookup(cg, expr.name).type_ast)
           ELSE TypeError("Unknown local")
      [] expr.k = "Field" -> FieldType(expr, cg)
      [] expr.k = "Unary" /\ expr.op = "*" -> PointeeType(ExprType(expr.expr, cg))
      [] OTHER -> TypeError("Cannot determine lvalue type")

RECURSIVE EmitAddr(_, _)

\* _emit_addr(expr), its Field case: add rax, offset after the address of
\* the base, when the offset is not 0
AddFieldOffset(cg, offset) ==
    IF offset # 0 THEN EmitLine(cg, Ins("addi", "rax", "", offset, 8)) ELSE cg

\* _emit_addr(expr), its Field case, ty the type of the field as the
\* lookups at its start find it
EmitFieldAddr(expr, ty, cg) ==
    IF ty.err # "none" THEN CodegenError(cg, ty.err)
    ELSE AddFieldOffset(EmitAddr(expr.base, cg),
           FieldOf(cg.symbols[BaseStructType(expr.base, cg).type_ast.name],
                   expr.name).offset)

\* _emit_addr(expr)
EmitAddr(expr, cg) ==
    IF Raised(cg) THEN cg
    ELSE CASE expr.k = "Var" ->
                IF EnvHas(cg, expr.name)
                THEN EmitLine(cg, Ins("lea", "rax", "rbp",
                                      0 - EnvLookup(cg, expr.name).offset, 8))
                ELSE CodegenError(cg, "Unknown local")
           [] expr.k = "Unary" /\ expr.op = "*" -> EmitExpr(expr.expr, cg)
           [] expr.k = "Field" -> EmitFieldAddr(expr, FieldType(expr, cg), cg)
           [] OTHER -> CodegenError(cg, "Expression is not addressable")

\* _emit_assign(expr), its last two lines: the store through rcx with the
\* width of the type _lvalue_type finds for the target
AssignStore(expr, ty, cg) ==
    IF Raised(cg) THEN cg
    ELSE IF ty.err # "none" THEN CodegenError(cg, ty.err)
    ELSE TagLast(StoreIndirectFromRax(cg, "rcx", ty.type_ast), "assign",
                 expr.target)

\* _emit_assign(expr), cg the state after the code of the target's address
\* and of the value
AssignAfter(expr, cg) == AssignStore(expr, LvalueType(expr.target, cg), cg)

\* _emit_assign(expr), cg the state after the code of the value: pop rcx
\* and the store
AssignPop(expr, cg) ==
    IF Raised(cg) THEN cg
    ELSE AssignAfter(expr, EmitLine(cg, Ins("pop", "rcx", "", 0, 8)))

\* _emit_assign(expr), cg the state after the code of the target's address:
\* push rax and the code of the value
AssignValue(expr, cg) ==
    IF Raised(cg) THEN cg
    ELSE AssignPop(expr, EmitExpr(expr.value,
                                  EmitLine(cg, Ins("push", "", "rax", 0, 8))))

\* _emit_assign(expr)
EmitAssign(expr, cg) == AssignValue(expr, EmitAddr(expr.target, cg))

\* _emit_unary(expr), the load of its `*` case: no type is passed
LoadPointee(expr, cg) ==
    IF Raised(cg) THEN cg
    ELSE TagLast(LoadIndirectToRax(cg, "rax", NoType), "read", expr)

\* _emit_unary(expr)
EmitUnary(expr, cg) ==
    CASE expr.op = "-" ->
           EmitLine(EmitExpr(expr.expr, cg), Ins("neg", "rax", "", 0, 8))
      [] expr.op = "!" ->
           EmitLines(EmitExpr(expr.expr, cg),
                     <<Ins("cmpi", "rax", "", 0, 8), Ins("set", "al", "e", 0, 1),
                       Ins("movzx", "rax", "al", 0, 1)>>)
      [] expr.op = "*" -> LoadPointee(expr, EmitExpr(expr.expr, cg))
      [] expr.op = "&" -> EmitAddr(expr.expr, cg)
      [] OTHER -> CodegenError(cg, "Unknown unary op")

\* The condition code of a comparison operator
ConditionCode(op) ==
    CASE op = "==" -> "e" [] op = "!=" -> "ne" [] op = "<" -> "l"
      [] op = "<=" -> "le" [] op = ">" -> "g" [] op = ">=" -> "ge"

\* The jump past the right operand taken on every left operand that is zero
SinkJumpOnZero(op) == "je"

\* _emit_short_circuit(expr): the jump past the right operand, taken when
\* the left operand decides: je for &&, jne for ||
SinkJump(op) == IF op = "&&" THEN "je" ELSE "jne"

\* _emit_short_circuit(expr): the labels, made before the operands are
\* emitted, the sink label first and the join label second; cg is the state
\* _emit_short_circuit starts in
SinkLabel(expr, cg) ==
    LabelName(cg, IF expr.op = "&&" THEN ".and_false" ELSE ".or_true")

JoinLabel(expr, cg) ==
    LabelName(NextLabel(cg), IF expr.op = "&&" THEN ".and_end" ELSE ".or_end")

\* _emit_short_circuit(expr), c the state after the right operand: the
\* result of the right operand as 0 or 1, the sink and the join
ShortCircuitJoin(expr, cg, c) ==
    IF Raised(c) THEN c
    ELSE EmitLines(c,
           <<Ins("cmpi", "rax", "", 0, 8), Ins("set", "al", "ne", 0, 1),
             Ins("movzx", "rax", "al", 0, 1),
             Ins("jmp", JoinLabel(expr, cg), "", 0, 8),
             InsFor("label", SinkLabel(expr, cg), "", 0, 8, "sink", expr),
             IF expr.op = "&&" THEN Ins("xor", "rax", "rax", 0, 8)
             ELSE Ins("movi", "rax", "", 1, 8),
             InsFor("label", JoinLabel(expr, cg), "", 0, 8, "join", expr)>>)

\* _emit_short_circuit(expr), c the state after the left operand: the jump
\* to the sink and the right operand
ShortCircuitRight(expr, cg, c) ==
    IF Raised(c) THEN c
    ELSE ShortCircuitJoin(expr, cg,
           EmitExpr(expr.right,
             EmitLines(c, <<Ins("cmpi", "rax", "", 0, 8),
                            Ins(SinkJump(expr.op), SinkLabel(expr, cg),
                                "", 0, 8)>>)))

\* _emit_short_circuit(expr)
EmitShortCircuit(expr, cg) ==
    ShortCircuitRight(expr, cg, EmitExpr(expr.left, NextLabel(NextLabel(cg))))

\* _emit_binary(expr), the lines after pop rcx
EmitOperator(op, cg) ==
    CASE op = "+" ->
           EmitLines(cg, <<Ins("add", "rcx", "rax", 0, 8),
                           Ins("mov", "rax", "rcx", 0, 8)>>)
      [] op = "-" ->
           EmitLines(cg, <<Ins("sub", "rcx", "rax", 0, 8),
                           Ins("mov", "rax", "rcx", 0, 8)>>)
      [] op = "*" ->
           EmitLines(cg, <<Ins("imul", "rcx", "rax", 0, 8),
                           Ins("mov", "rax", "rcx", 0, 8)>>)
      [] op = "/" ->
           EmitLines(cg, <<Ins("mov", "r8", "rax", 0, 8),
                           Ins("mov", "rax", "rcx", 0, 8),
                           Ins("cqo", "", "", 0, 8),
                           Ins("idiv", "r8", "", 0, 8)>>)
      [] op = "%" ->
           EmitLines(cg, <<Ins("mov", "r8", "rax", 0, 8),
                           Ins("mov", "rax", "rcx", 0, 8),
                           Ins("cqo", "", "", 0, 8),
                           Ins("idiv", "r8", "", 0, 8),
                           Ins("mov", "rax", "rdx", 0, 8)>>)
      [] op \in {"==", "!=", "<", "<=", ">", ">="} ->
           EmitLines(cg, <<Ins("cmp", "rcx", "rax", 0, 8),
                           Ins("set", "al", ConditionCode(op), 0, 1),
                           Ins("movzx", "rax", "al", 0, 1)>>)
      [] OTHER -> CodegenError(cg, "Unknown binary op")

\* _emit_binary(expr), cg the state after the right operand: pop rcx and
\* the operator
BinaryOperator(expr, cg) ==
    IF Raised(cg) THEN cg
    ELSE EmitOperator(expr.op, EmitLine(cg, Ins("pop", "rcx", "", 0, 8)))

\* _emit_binary(expr), cg the state after the left operand: push rax and
\* the right operand
BinaryRight(expr, cg) ==
    IF Raised(cg) THEN cg
    ELSE BinaryOperator(expr,
           EmitExpr(expr.right, EmitLine(cg, Ins("push", "", "rax", 0, 8))))

\* _emit_binary(expr)
EmitBinary(expr, cg) ==
    IF expr.op \in {"&&", "||"} THEN EmitShortCircuit(expr, cg)
    ELSE BinaryRight(expr, EmitExpr(expr.left, cg))

\* _emit_expr(expr), its Field case, ty the type _field_type finds
LoadField(expr, ty, cg) ==
    IF Raised(cg) THEN cg
    ELSE IF ty.err # "none" THEN CodegenError(cg, ty.err)
    ELSE TagLast(LoadIndirectToRax(cg, "rax", ty.type_ast), "read", expr)

\* _emit_expr(expr), its Field case, cg the state after _emit_addr
LoadFieldAfter(expr, cg) == LoadField(expr, FieldType(expr, cg), cg)

\* _emit_expr(expr), its Var case
LoadVar(expr, info, cg) ==
    TagLast(LoadToRax(cg, info.offset, info.type_ast), "read", expr)

\* _emit_expr(expr)
EmitExpr(expr, cg) ==
    IF Raised(cg) THEN cg
    ELSE CASE expr.k = "IntLit" ->
                EmitLine(cg, Ins("movi", "rax", "", IntValue(expr.value), 8))
           [] expr.k = "BoolLit" ->
                EmitLine(cg, Ins("movi", "rax", "", IF expr.bvalue THEN 1 ELSE 0, 8))
           [] expr.k = "NullLit" -> EmitLine(cg, Ins("xor", "rax", "rax", 0, 8))
           [] expr.k = "Var" ->
                IF EnvHas(cg, expr.name)
                THEN LoadVar(expr, EnvLookup(cg, expr.name), cg)
                ELSE CodegenError(cg, "Unknown local")
           [] expr.k = "Unary" -> EmitUnary(expr, cg)
           [] expr.k = "Binary" -> EmitBinary(expr, cg)
           [] expr.k = "Call" -> EmitCall(expr, cg, "call")
           [] expr.k = "Field" -> LoadFieldAfter(expr, EmitAddr(expr, cg))
           [] expr.k = "Assign" -> EmitAssign(expr, cg)
           [] OTHER -> CodegenError(cg, "Unsupported expression")

RECURSIVE EmitDefers(_, _, _)

\* _emit_defers(defers): the calls of one scope, last registered first; i is
\* the position the loop is at
EmitDefers(defers, i, cg) ==
    IF Raised(cg) \/ i = 0 THEN cg
    ELSE EmitDefers(defers, i - 1, EmitCall(defers[i], cg, "defer"))

RECURSIVE EmitDefersAllOuterFirst(_, _)

\* _emit_defers_all with its outer loop not reversed: the scopes in the order
\* they were opened
EmitDefersAllOuterFirst(s, cg) ==
    IF Raised(cg) \/ s = 0 THEN cg
    ELSE LET j == Len(cg.defer_stack) - s + 1
         IN  EmitDefersAllOuterFirst(s - 1,
                 EmitDefers(cg.defer_stack[j], Len(cg.defer_stack[j]), cg))

RECURSIVE EmitDefersAll(_, _)

\* _emit_defers_all: every scope of defer_stack from the innermost (s starts
\* at the top) to the outermost, the calls of each last registered first
EmitDefersAll(s, cg) ==
    IF Raised(cg) \/ s = 0 THEN cg
    ELSE EmitDefersAll(s - 1,
             EmitDefers(cg.defer_stack[s], Len(cg.defer_stack[s]), cg))

\* self._emit_defers(self.defer_stack[-1], env)
EmitTopDefers(cg) ==
    IF Raised(cg) THEN cg
    ELSE EmitDefers(cg.defer_stack[Len(cg.defer_stack)],
                    Len(cg.defer_stack[Len(cg.defer_stack)]), cg)

RECURSIVE EmitStmt(_, _)
RECURSIVE EmitStmts(_, _, _)

\* _emit_block(block), cg the state after the statements: the defers of the
\* scope and the two pops
CloseBlock(cg) == IF Raised(cg) THEN cg ELSE LeaveScope(EmitTopDefers(cg))

\* _emit_block(block)
EmitBlock(stmts, cg) == CloseBlock(EmitStmts(stmts, 1, EnterScope(cg)))

\* _emit_block(block), the loop over the statements
EmitStmts(stmts, i, cg) ==
    IF Raised(cg) \/ i > Len(stmts) THEN cg
    ELSE EmitStmts(stmts, i + 1, EmitStmt(stmts[i], cg))

\* _emit_stmt(stmt), its VarDecl case, cg the state after the code of the
\* initialiser: the store into the slot at offset
StoreLocal(stmt, offset, cg) ==
    IF Raised(cg) THEN cg
    ELSE TagLast(StoreRax(cg, offset, stmt.type_ast), "local", Var(stmt.name))

\* _emit_stmt(stmt), its VarDecl case, cg the state after env.define
EmitVarDecl(stmt, cg) == StoreLocal(stmt, cg.offset, EmitExpr(stmt.init, cg))

\* _emit_stmt(stmt), its If case, cg the state after the then block; before
\* is the state the statement starts in, which names the labels
EmitIfElse(stmt, before, cg) ==
    IF Raised(cg) THEN cg
    ELSE EmitLine(
           IF stmt.has_else
           THEN EmitBlock(stmt.else_block,
                  EmitLines(cg, <<Ins("jmp", LabelName(NextLabel(before), ".endif"),
                                      "", 0, 8),
                                  Ins("label", LabelName(before, ".else"),
                                      "", 0, 8)>>))
           ELSE EmitLines(cg, <<Ins("jmp", LabelName(NextLabel(before), ".endif"),
                                    "", 0, 8),
                                Ins("label", LabelName(before, ".else"),
                                    "", 0, 8)>>),
           Ins("label", LabelName(NextLabel(before), ".endif"), "", 0, 8))

\* _emit_stmt(stmt), its If case, cg the state after the code of the
\* condition
EmitIfThen(stmt, before, cg) ==
    IF Raised(cg) THEN cg
    ELSE EmitIfElse(stmt, before,
           EmitBlock(stmt.then_block,
             EmitLines(cg, <<Ins("cmpi", "rax", "", 0, 8),
                             Ins("je", LabelName(before, ".else"), "", 0, 8)>>)))

\* _emit_stmt(stmt), its While case, cg the state after the code of the
\* condition
EmitWhileBody(stmt, before, cg) ==
    IF Raised(cg) THEN cg
    ELSE EmitLines(
           EmitBlock(stmt.body,
             EmitLines(cg, <<Ins("cmpi", "rax", "", 0, 8),
                             Ins("je", LabelName(NextLabel(before), ".endwhile"),
                                 "", 0, 8)>>)),
           <<Ins("jmp", LabelName(before, ".while"), "", 0, 8),
             Ins("label", LabelName(NextLabel(before), ".endwhile"), "", 0, 8)>>)

\* _emit_stmt(stmt), its Goto case, cg the state after _emit_defers_all
EmitGotoJump(stmt, before, cg) ==
    IF Raised(cg) THEN cg
    ELSE Note(EmitLine(cg, InsFor("jmp", stmt.label, "", 0, 8, "goto", NoExpr)),
              "goto", before)

\* _emit_stmt(stmt).  Of the comment lines _emit_loc writes, the one of a
\* DeferCall is kept (op "loc", src the deferred Call): the defer statement
\* emits no instruction, and the comment marks where it executes.
EmitStmt(stmt, cg) ==
    IF Raised(cg) THEN cg
    ELSE CASE stmt.k = "Block" -> EmitBlock(stmt.stmts, cg)
           [] stmt.k = "VarDecl" ->
                EmitVarDecl(stmt, EnvDefine(cg, stmt.name, stmt.type_ast))
           [] stmt.k = "DeferCall" ->
                Note(RegisterDefer(EmitLine(cg, InsFor("loc", "", "", 0, 8,
                                                        "defer", stmt.call)),
                                   stmt.call),
                     "defer", cg)
           [] stmt.k = "If" ->
                EmitIfThen(stmt, cg, EmitExpr(stmt.cond, NextLabel(NextLabel(cg))))
           [] stmt.k = "While" ->
                EmitWhileBody(stmt, cg,
                  EmitExpr(stmt.cond,
                    EmitLine(NextLabel(NextLabel(cg)),
                             Ins("label", LabelName(cg, ".while"), "", 0, 8))))
           [] stmt.k = "ExprStmt" -> EmitExpr(stmt.expr, cg)
           [] stmt.k = "Goto" ->
                EmitGotoJump(stmt, cg, EmitDefersAll(Len(cg.defer_stack), cg))
           [] stmt.k = "LabeledBlock" ->
                EmitBlock(stmt.block, EmitLine(cg, Ins("label", stmt.label, "", 0, 8)))
           [] stmt.k = "Return" ->
                EmitEpilogue(IF stmt.value.k # "None" THEN EmitExpr(stmt.value, cg)
                             ELSE cg)
           [] OTHER -> CodegenError(cg, "Unsupported statement")

RECURSIVE EmitParams(_, _, _)

\* _emit_fn(fn): the loop over the parameters, each given a slot and stored
\* from its argument register
EmitParams(params, i, cg) ==
    IF Raised(cg) \/ i > Len(params) THEN cg
    ELSE LET c1 == EnvDefine(cg, params[i].name, params[i].type_ast)
         IN  EmitParams(params, i + 1,
                        TagLast(StoreFromReg(c1, ArgRegs[i], c1.offset,
                                             params[i].type_ast),
                                "param", Var(params[i].name)))

\* _emit_fn(fn), cg the state after the body: the two pops
CloseFn(cg) == IF Raised(cg) THEN cg ELSE LeaveScope(cg)

\* _emit_fn(fn)
EmitFn(f, symbols) ==
    LET frame_size == ComputeFrameSize(f, symbols)
        c0 == EmitLine(EmitLine(EmitLine(NewCodegen(symbols),
                                         Ins("label", f.name, "", 0, 8)),
                                Ins("push", "", "rbp", 0, 8)),
                       Ins("mov", "rbp", "rsp", 0, 8))
        c1 == IF frame_size > 0
              THEN EmitLine(c0, Ins("subi", "rsp", "", frame_size, 8))
              ELSE c0
        c2 == EnterScope(c1)
        c3 == IF Len(f.params) > Len(ArgRegs)
              THEN CodegenError(c2, "More than 6 parameters not supported")
              ELSE EmitParams(f.params, 1, c2)
    IN  CloseFn(EmitBlock(f.body, c3))

\* Codegen not run yet
NotEmitted == NewCodegen(EmptyLayouts)

(***************************************************************************)
(* typesys.py: the types of the checker.                                   *)
(***************************************************************************)
TyI64 == [t |-> "i64"]
TyU64 == [t |-> "u64"]
TyU8 == [t |-> "u8"]
TyBool == [t |-> "bool"]
TyUnit == [t |-> "unit"]
TyNull == [t |-> "null"]
TyIntLit(v) == [t |-> "int literal", value |-> v]
TyPtr(inner) == [t |-> "ptr", inner |-> inner]
TyStruct(n) == [t |-> "struct", name |-> n]

\* What resolve_type yields where it raises TypeSystemError
TyUnknown == [t |-> "unknown"]

\* _BUILTIN_TYPES
BuiltinTypes ==
    [n \in {"i64", "u64", "u8", "bool", "unit"} |->
        CASE n = "i64" -> TyI64 [] n = "u64" -> TyU64 [] n = "u8" -> TyU8
          [] n = "bool" -> TyBool [] OTHER -> TyUnit]

RECURSIVE resolve_type(_, _)
\* resolve_type(type_ast, symbols); symbols.structs is kept as the set of
\* the struct names
resolve_type(type_ast, symbols) ==
    IF type_ast.k = "Ptr"
    THEN LET inner == resolve_type(type_ast.inner, symbols)
         IN  IF inner = TyUnknown THEN TyUnknown ELSE TyPtr(inner)
    ELSE IF type_ast.name \in DOMAIN BuiltinTypes THEN BuiltinTypes[type_ast.name]
    ELSE IF type_ast.name \in symbols.structs THEN TyStruct(type_ast.name)
    ELSE TyUnknown

is_int(ty) == ty.t \in {"i64", "u64", "u8", "int literal"}

is_bool(ty) == ty.t = "bool"

\* Faulty variant of _intlit_fits: the upper ends of the ranges are taken one
\* too high
IntlitFitsEndIncluded(value, target) ==
    CASE target.t = "i64" ->
           IntLE(IntNeg(IntPow2(63)), value) /\ IntLE(value, IntPow2(63))
      [] target.t = "u64" -> IntLE(IntOf(0), value) /\ IntLE(value, IntPow2(64))
      [] target.t = "u8" -> IntLE(IntOf(0), value) /\ IntLE(value, IntPow2(8))
      [] OTHER -> FALSE

\* _intlit_fits(value, target)
intlit_fits(value, target) ==
    CASE target.t = "i64" ->
           /\ IntLE(IntNeg(IntPow2(63)), value)
           /\ IntLE(value, IntSub(IntPow2(63), IntOf(1)))
      [] target.t = "u64" ->
           /\ IntLE(IntOf(0), value)
           /\ IntLE(value, IntSub(IntPow2(64), IntOf(1)))
      [] target.t = "u8" ->
           /\ IntLE(IntOf(0), value)
           /\ IntLE(value, IntSub(IntPow2(8), IntOf(1)))
      [] OTHER -> FALSE

\* Faulty variant of is_assignable: null goes into every target that is not
\* an integer
IsAssignableNullAnywhere(target, value) ==
    IF value.t = "int literal" /\ is_int(target)
    THEN intlit_fits(value.value, target)
    ELSE IF value.t = "null" /\ ~is_int(target) THEN TRUE
    ELSE target = value

\* is_assignable(target, value)
is_assignable(target, value) ==
    IF value.t = "int literal" /\ is_int(target)
    THEN intlit_fits(value.value, target)
    ELSE IF value.t = "null" /\ target.t = "ptr" THEN TRUE
    ELSE target = value

(***************************************************************************)
(* typecheck.py: the type checker.  An expression check yields the type    *)
(* and the TypeCheckError raised ("none" if none); a statement check       *)
(* yields the TypeEnv scopes and the error.                                *)
(***************************************************************************)
Typed(ty) == [ty |-> ty, err |-> "none"]

TypeCheckError(msg) == [ty |-> TyUnknown, err |-> msg]

\* TypeEnv.lookup(name): is the name in a scope, and its type in the
\* innermost scope that has it
TypeEnvHas(scopes, name) == \E i \in 1..Len(scopes) : name \in DOMAIN scopes[i]

TypeEnvLookup(scopes, name) ==
    LET i == CHOOSE j \in 1..Len(scopes) :
                 /\ name \in DOMAIN scopes[j]
                 /\ \A h \in (j + 1)..Len(scopes) : name \notin DOMAIN scopes[h]
    IN  scopes[i][name]

\* TypeEnv.define(name, ty), the name not yet in the top scope
TypeEnvDefine(scopes, name, ty) ==
    LET top == scopes[Len(scopes)]
    IN  [scopes EXCEPT ![Len(scopes)] =
            [n \in DOMAIN top \cup {name} |-> IF n = name THEN ty ELSE top[n]]]

\* _is_lvalue(expr)
IsLvalue(expr) ==
    \/ expr.k \in {"Var", "Field", "Index"}
    \/ expr.k = "Unary" /\ expr.op = "*"

\* _eval_int_bin(op, left, right), for the five operators _check_binary
\* hands it
EvalIntBin(op, left, right) ==
    CASE op = "+" -> IntAdd(left, right)
      [] op = "-" -> IntSub(left, right)
      [] op = "*" -> IntMul(left, right)
      [] op = "/" -> IF IntIsZero(right) THEN IntOf(0)
                     ELSE IntOfFloat(IntTrueDiv(left, right))
      [] op = "%" -> IF IntIsZero(right) THEN IntOf(0)
                     ELSE IntMod(left, right)

\* Faulty variant of _int_bin_result: two concrete integer operands need not
\* have the same type
IntBinResultAnyInts(op, left, right) ==
    IF left.t = "int literal" /\ right.t = "int literal"
    THEN Typed(TyIntLit(EvalIntBin(op, left.value, right.value)))
    ELSE IF left.t = "int literal" /\ is_int(right) THEN Typed(right)
    ELSE IF right.t = "int literal" /\ is_int(left) THEN Typed(left)
    ELSE IF is_int(left) /\ is_int(right) THEN Typed(left)
    ELSE TypeCheckError("Arithmetic operators require matching integer types")

\* _int_bin_result(op, left, right)
IntBinResult(op, left, right) ==
    IF left.t = "int literal" /\ right.t = "int literal"
    THEN Typed(TyIntLit(EvalIntBin(op, left.value, right.value)))
    ELSE IF left.t = "int literal" /\ is_int(right) THEN Typed(right)
    ELSE IF right.t = "int literal" /\ is_int(left) THEN Typed(left)
    ELSE IF is_int(left) /\ is_int(right) /\ left.t = right.t THEN Typed(left)
    ELSE TypeCheckError("Arithmetic operators require matching integer types")

RECURSIVE CheckExpr(_, _, _)
RECURSIVE CheckArgs(_, _, _, _, _, _)

\* _check_unary(expr), inner the result of _check_expr on its operand
CheckUnary(expr, inner) ==
    IF inner.err # "none" THEN inner
    ELSE CASE expr.op = "-" ->
                IF ~is_int(inner.ty) THEN TypeCheckError("Unary '-' expects int")
                ELSE IF inner.ty.t = "int literal"
                THEN Typed(TyIntLit(IntNeg(inner.ty.value)))
                ELSE inner
           [] expr.op = "!" ->
                IF ~is_bool(inner.ty) THEN TypeCheckError("Unary '!' expects bool")
                ELSE Typed(TyBool)
           [] expr.op = "*" ->
                IF inner.ty.t # "ptr" THEN TypeCheckError("Unary '*' expects pointer")
                ELSE Typed(inner.ty.inner)
           [] expr.op = "&" ->
                IF ~IsLvalue(expr.expr) THEN TypeCheckError("Address-of requires lvalue")
                ELSE Typed(TyPtr(inner.ty))
           [] OTHER -> TypeCheckError("Unknown unary operator")

\* _check_binary(expr), left and right the results of _check_expr on its
\* operands
CheckBinary(expr, left, right) ==
    IF left.err # "none" THEN left
    ELSE IF right.err # "none" THEN right
    ELSE CASE expr.op \in {"+", "-", "*", "/", "%"} ->
                IntBinResult(expr.op, left.ty, right.ty)
           [] expr.op \in {"<", "<=", ">", ">="} ->
                IF ~is_int(left.ty) \/ ~is_int(right.ty)
                THEN TypeCheckError("Relational operators require integer types")
                ELSE Typed(TyBool)
           [] expr.op \in {"==", "!="} ->
                IF is_assignable(left.ty, right.ty) \/ is_assignable(right.ty, left.ty)
                THEN Typed(TyBool)
                ELSE TypeCheckError("Equality operators require compatible types")
           [] expr.op \in {"&&", "||"} ->
                IF ~is_bool(left.ty) \/ ~is_bool(right.ty)
                THEN TypeCheckError("Logical operators require bool operands")
                ELSE Typed(TyBool)
           [] OTHER -> TypeCheckError("Unknown binary operator")

\* _check_call(expr): one turn of the loop over the arguments, arg the
\* result of _check_expr on the argument; the error raised, "none" if none
CheckArg(arg, param_ty) ==
    IF arg.err # "none" THEN arg.err
    ELSE IF param_ty = TyUnknown THEN "Unknown type"
    ELSE IF ~is_assignable(param_ty, arg.ty) THEN "Argument type mismatch"
    ELSE "none"

\* _check_call(expr): the loop over the arguments; the error of the first
\* argument that fails, "none" if none does
CheckArgs(args, sig, i, err, scopes, symbols) ==
    IF i > Len(args) \/ err # "none" THEN err
    ELSE CheckArgs(args, sig, i + 1,
                   CheckArg(CheckExpr(args[i], scopes, symbols),
                            resolve_type(sig.params[i].type_ast, symbols)),
                   scopes, symbols)

\* _check_call(expr): its return, err the error of the loop over the
\* arguments
CallResult(err, ret) ==
    IF err # "none" THEN TypeCheckError(err)
    ELSE IF ret = TyUnknown THEN TypeCheckError("Unknown type")
    ELSE Typed(ret)

\* _check_call(expr)
CheckCall(expr, scopes, symbols) ==
    IF TypeEnvHas(scopes, expr.callee)
    THEN TypeCheckError("Cannot call non-function value")
    ELSE IF expr.callee \notin DOMAIN symbols.functions
    THEN TypeCheckError("Unknown function")
    ELSE IF Len(expr.args) # Len(symbols.functions[expr.callee].params)
    THEN TypeCheckError("Argument count mismatch")
    ELSE CallResult(CheckArgs(expr.args, symbols.functions[expr.callee], 1,
                              "none", scopes, symbols),
                    resolve_type(symbols.functions[expr.callee].ret, symbols))

\* _check_expr(expr), its Field case, base the result of _check_expr on the
\* base
CheckField(expr, base, symbols) ==
    IF base.err # "none" THEN base
    ELSE IF base.ty.t # "struct"
    THEN TypeCheckError("Field access requires struct")
    ELSE IF base.ty.name \notin DOMAIN symbols.struct_layouts
    THEN TypeCheckError("Unknown field")
    ELSE IF ~HasField(symbols.struct_layouts[base.ty.name], expr.name)
    THEN TypeCheckError("Unknown field")
    ELSE IF resolve_type(FieldOf(symbols.struct_layouts[base.ty.name],
                                 expr.name).type_ast, symbols) = TyUnknown
    THEN TypeCheckError("Unknown type")
    ELSE Typed(resolve_type(FieldOf(symbols.struct_layouts[base.ty.name],
                                    expr.name).type_ast, symbols))

\* _check_expr(expr), its Index case, base and idx the results of
\* _check_expr on the base and on the index
CheckIndex(base, idx) ==
    IF base.err # "none" THEN base
    ELSE IF idx.err # "none" THEN idx
    ELSE IF base.ty.t # "ptr"
    THEN TypeCheckError("Indexing requires pointer base")
    ELSE IF ~is_int(idx.ty)
    THEN TypeCheckError("Indexing requires integer index")
    ELSE Typed(base.ty.inner)

\* _check_expr(expr), for literals, variables, unary and binary operators,
\* calls, field accesses, indexings and assignments
CheckExpr(expr, scopes, symbols) ==
    CASE expr.k = "IntLit" -> Typed(TyIntLit(expr.value))
      [] expr.k = "BoolLit" -> Typed(resolve_type(NamedType("bool"), symbols))
      [] expr.k = "NullLit" -> Typed(TyNull)
      [] expr.k = "Var" ->
           IF TypeEnvHas(scopes, expr.name)
           THEN Typed(TypeEnvLookup(scopes, expr.name))
           ELSE TypeCheckError("Unknown variable")
      [] expr.k = "Unary" ->
           CheckUnary(expr, CheckExpr(expr.expr, scopes, symbols))
      [] expr.k = "Binary" ->
           CheckBinary(expr, CheckExpr(expr.left, scopes, symbols),
                       CheckExpr(expr.right, scopes, symbols))
      [] expr.k = "Call" -> CheckCall(expr, scopes, symbols)
      [] expr.k = "Field" ->
           CheckField(expr, CheckExpr(expr.base, scopes, symbols), symbols)
      [] expr.k = "Index" ->
           CheckIndex(CheckExpr(expr.base, scopes, symbols),
                      CheckExpr(expr.index, scopes, symbols))
      [] expr.k = "Assign" ->
           IF ~IsLvalue(expr.target) THEN TypeCheckError("Invalid assignment target")
           ELSE LET target == CheckExpr(expr.target, scopes, symbols)
                    value == CheckExpr(expr.value, scopes, symbols)
                IN  IF target.err # "none" THEN target
                    ELSE IF value.err # "none" THEN value
                    ELSE IF ~is_assignable(target.ty, value.ty)
                    THEN TypeCheckError("Assignment mismatch")
                    ELSE Typed(target.ty)
      [] OTHER -> TypeCheckError("Unknown expression type")

\* The state of a statement check
TcState(scopes, err) == [scopes |-> scopes, err |-> err]

TcRaise(tc, msg) == [tc EXCEPT !.err = msg]

\* _check_stmt(stmt), its Return case, value the result of _check_expr on
\* the value returned, if there is one
CheckReturn(stmt, tc, value, ret_ty) ==
    IF stmt.value.k = "None"
    THEN IF ret_ty # TyUnit THEN TcRaise(tc, "Return value required") ELSE tc
    ELSE IF value.err # "none" THEN TcRaise(tc, value.err)
    ELSE IF ~is_assignable(ret_ty, value.ty)
    THEN TcRaise(tc, "Return type mismatch")
    ELSE tc

RECURSIVE CheckStmt(_, _, _, _)
RECURSIVE CheckStmts(_, _, _, _, _)

\* Faulty variant of _check_block: the scope pushed for the block is not
\* popped
CheckBlockNoPop(stmts, tc, symbols, ret_ty) ==
    CheckStmts(stmts, 1, [tc EXCEPT !.scopes = Append(@, <<>>)], symbols, ret_ty)

\* _check_block(block), its env.pop(): not reached when a statement of the
\* block has raised
PopScope(inner) ==
    IF inner.err # "none" THEN inner
    ELSE [inner EXCEPT !.scopes = SubSeq(@, 1, Len(@) - 1)]

\* _check_block(block)
CheckBlock(stmts, tc, symbols, ret_ty) ==
    PopScope(CheckStmts(stmts, 1, [tc EXCEPT !.scopes = Append(@, <<>>)],
                        symbols, ret_ty))

\* _check_block(block) after a statement that may have raised
CheckBlockAfter(stmts, tc, symbols, ret_ty) ==
    IF tc.err # "none" THEN tc ELSE CheckBlock(stmts, tc, symbols, ret_ty)

CheckStmts(stmts, i, tc, symbols, ret_ty) ==
    IF i > Len(stmts) \/ tc.err # "none" THEN tc
    ELSE CheckStmts(stmts, i + 1, CheckStmt(stmts[i], tc, symbols, ret_ty),
                    symbols, ret_ty)

\* The condition of an if or a while, c the result of _check_expr on it:
\* to be bool
CheckCond(c, tc, msg) ==
    IF c.err # "none" THEN TcRaise(tc, c.err)
    ELSE IF ~is_bool(c.ty) THEN TcRaise(tc, msg)
    ELSE tc

\* _check_stmt(stmt), its VarDecl case, init the result of _check_expr on
\* the initialiser
CheckVarDecl(stmt, tc, var_ty, init) ==
    IF var_ty = TyUnknown THEN TcRaise(tc, "Unknown type")
    ELSE IF init.err # "none" THEN TcRaise(tc, init.err)
    ELSE IF ~is_assignable(var_ty, init.ty)
    THEN TcRaise(tc, "Type mismatch in var init")
    ELSE IF stmt.name \in DOMAIN tc.scopes[Len(tc.scopes)]
    THEN TcRaise(tc, "Duplicate local symbol")
    ELSE [tc EXCEPT !.scopes = TypeEnvDefine(@, stmt.name, var_ty)]

\* _check_stmt(stmt), its DeferCall case, call the result of _check_call
CheckDeferCall(tc, call) ==
    IF call.err # "none" THEN TcRaise(tc, call.err)
    ELSE IF call.ty # TyUnit THEN TcRaise(tc, "defer call must return unit")
    ELSE tc

\* _check_stmt(stmt), its ExprStmt case, e the result of _check_expr
CheckExprStmt(tc, e) == IF e.err # "none" THEN TcRaise(tc, e.err) ELSE tc

\* _check_stmt(stmt)
CheckStmt(stmt, tc, symbols, ret_ty) ==
    CASE stmt.k = "Block" -> CheckBlock(stmt.stmts, tc, symbols, ret_ty)
      [] stmt.k = "VarDecl" ->
           CheckVarDecl(stmt, tc, resolve_type(stmt.type_ast, symbols),
                        CheckExpr(stmt.init, tc.scopes, symbols))
      [] stmt.k = "DeferCall" ->
           CheckDeferCall(tc, CheckCall(stmt.call, tc.scopes, symbols))
      [] stmt.k = "If" ->
           IF stmt.has_else
           THEN CheckBlockAfter(stmt.else_block,
                  CheckBlockAfter(stmt.then_block,
                    CheckCond(CheckExpr(stmt.cond, tc.scopes, symbols), tc,
                              "If condition must be bool"),
                    symbols, ret_ty),
                  symbols, ret_ty)
           ELSE CheckBlockAfter(stmt.then_block,
                  CheckCond(CheckExpr(stmt.cond, tc.scopes, symbols), tc,
                            "If condition must be bool"),
                  symbols, ret_ty)
      [] stmt.k = "While" ->
           CheckBlockAfter(stmt.body,
             CheckCond(CheckExpr(stmt.cond, tc.scopes, symbols), tc,
                       "While condition must be bool"),
             symbols, ret_ty)
      [] stmt.k = "Return" ->
           CheckReturn(stmt, tc, CheckExpr(stmt.value, tc.scopes, symbols), ret_ty)
      [] stmt.k = "ExprStmt" ->
           CheckExprStmt(tc, CheckExpr(stmt.expr, tc.scopes, symbols))
      [] stmt.k \in {"Goto", "LabeledBlock"} -> tc
      [] OTHER -> TcRaise(tc, "Unknown statement type")

RECURSIVE DefineParams(_, _, _, _)
\* _typecheck_fn(fn): the loop that resolves and defines the parameters
DefineParams(params, i, tc, symbols) ==
    IF i > Len(params) \/ tc.err # "none" THEN tc
    ELSE LET param_ty == resolve_type(params[i].type_ast, symbols)
         IN  DefineParams(params, i + 1,
               IF param_ty = TyUnknown THEN TcRaise(tc, "Unknown type")
               ELSE IF params[i].name \in DOMAIN tc.scopes[Len(tc.scopes)]
               THEN TcRaise(tc, "Duplicate local symbol")
               ELSE [tc EXCEPT !.scopes = TypeEnvDefine(@, params[i].name, param_ty)],
               symbols)

\* _typecheck_fn(fn) up to its last env.pop(): the TypeEnv then, and the
\* error raised
CheckFn(f, symbols) ==
    LET tc == DefineParams(f.params, 1, TcState(<< <<>> >>, "none"), symbols)
        ret_ty == resolve_type(f.ret, symbols)
    IN  IF ret_ty = TyUnknown /\ tc.err = "none"
        THEN TcRaise(tc, "Unknown type")
        ELSE CheckBlockAfter(f.body, tc, symbols, ret_ty)

\* _typecheck_fn(fn): the error raised, "none" if the function checks
TypecheckFn(f, symbols) == CheckFn(f, symbols).err

\* The results while typecheck_program has not run
NotChecked == "not checked"

NoEnv == <<>>

NotTyped == [ty |-> TyUnknown, err |-> NotChecked]

(***************************************************************************)
(* The exceptions the stages raise.  The model keeps the message of an     *)
(* error; these give the class of the exception that carries it.           *)
(***************************************************************************)
\* What typecheck_program raises: resolve_type's TypeSystemError for an
\* unknown type name, the checker's own TypeCheckError for all else
ExceptionOfCheck(err) ==
    IF err = "Unknown type" THEN "TypeSystemError" ELSE "TypeCheckError"

\* What lower_program raises
ExceptionOfLower(err) == "ValueError"

(***************************************************************************)
(* lexer.py: the lexer.  The source is a sequence of characters; lx is the *)
(* Lexer's position: index (of the next character, from 1), line and col.  *)
(* The result of tokenize is the token list, or the message and the class  *)
(* of the exception raised.                                                *)
(***************************************************************************)
Lexed(toks) == [tokens |-> toks, err |-> "none", exc |-> "none"]

LexRaise(msg, exc) == [tokens |-> <<>>, err |-> msg, exc |-> exc]

\* Token(kind, lexeme, line, col) as the lexer calls it: the dataclass of
\* tokens.py has the five fields kind, lexeme, filepath, line, col, so the
\* call with four arguments raises TypeError
Token(kind, lexeme, line, col) ==
    [err |-> "Token.__init__() missing 1 required positional argument",
     exc |-> "TypeError", kind |-> kind, lexeme |-> lexeme, line |-> line, col |-> col]

LexerAt(index, line, col) == [index |-> index, line |-> line, col |-> col, err |-> "none"]

\* _is_at_end, _peek, _peek_next ("0" stands for the NUL they yield at the end)
IsAtEnd(src, lx) == lx.index > Len(src)

Peek(src, lx) == IF IsAtEnd(src, lx) THEN "0" ELSE src[lx.index]

PeekNext(src, lx) == IF lx.index + 1 > Len(src) THEN "0" ELSE src[lx.index + 1]

\* _advance
Advance(src, lx) ==
    IF src[lx.index] = "\n"
    THEN [lx EXCEPT !.index = @ + 1, !.line = @ + 1, !.col = 1]
    ELSE [lx EXCEPT !.index = @ + 1, !.col = @ + 1]

\* str.isalpha, str.isdigit on the characters of the model
IsAlpha(ch) == ch \in {"a"}

IsDigit(ch) == ch \in {"1"}

\* _is_ident_tail
IsIdentTail(ch) == IsAlpha(ch) \/ IsDigit(ch) \/ ch = "_"

RECURSIVE ConsumeIdentTail(_, _)
\* _consume_while(self._is_ident_tail): the position after it
ConsumeIdentTail(src, lx) ==
    IF ~IsAtEnd(src, lx) /\ IsIdentTail(Peek(src, lx))
    THEN ConsumeIdentTail(src, Advance(src, lx))
    ELSE lx

RECURSIVE ConsumeDigits(_, _)
\* _consume_while(str.isdigit): the position after it
ConsumeDigits(src, lx) ==
    IF ~IsAtEnd(src, lx) /\ IsDigit(Peek(src, lx))
    THEN ConsumeDigits(src, Advance(src, lx))
    ELSE lx

RECURSIVE ConsumeBlockComment(_, _)
\* _consume_block_comment
ConsumeBlockComment(src, lx) ==
    IF IsAtEnd(src, lx) THEN [lx EXCEPT !.err = "Unterminated block comment"]
    ELSE IF Peek(src, lx) = "*" /\ PeekNext(src, lx) = "/"
    THEN Advance(src, Advance(src, lx))
    ELSE ConsumeBlockComment(src, Advance(src, lx))

RECURSIVE SkipLine(_, _)
\* The loop of _skip_whitespace_and_comments that passes a line comment
SkipLine(src, lx) ==
    IF ~IsAtEnd(src, lx) /\ Peek(src, lx) # "\n"
    THEN SkipLine(src, Advance(src, lx))
    ELSE lx

RECURSIVE SkipWhitespaceAndComments(_, _)
\* _skip_whitespace_and_comments
SkipWhitespaceAndComments(src, lx) ==
    IF IsAtEnd(src, lx) THEN lx
    ELSE IF Peek(src, lx) \in {" ", "\t", "\r", "\n"}
    THEN SkipWhitespaceAndComments(src, Advance(src, lx))
    ELSE IF Peek(src, lx) = "/" /\ PeekNext(src, lx) = "/"
    THEN SkipWhitespaceAndComments(src, SkipLine(src, Advance(src, Advance(src, lx))))
    ELSE IF Peek(src, lx) = "/" /\ PeekNext(src, lx) = "*"
    THEN LET c == ConsumeBlockComment(src, Advance(src, Advance(src, lx)))
         IN  IF c.err # "none" THEN c ELSE SkipWhitespaceAndComments(src, c)
    ELSE lx

\* _match(expected)
Match(src, lx, expected) == ~IsAtEnd(src, lx) /\ src[lx.index] = expected

\* The characters _match_operator_or_punct knows as a token of their own
SingleKinds ==
    [c \in {"+", "-", "*", "/", "%", "(", ")", "{", "}", "[", "]", ";", ",", ":", "."} |->
        CASE c = "+" -> "PLUS" [] c = "-" -> "MINUS" [] c = "*" -> "STAR"
          [] c = "/" -> "SLASH" [] c = "%" -> "PERCENT" [] c = "(" -> "LPAREN"
          [] c = ")" -> "RPAREN" [] c = "{" -> "LBRACE" [] c = "}" -> "RBRACE"
          [] c = "[" -> "LBRACKET" [] c = "]" -> "RBRACKET" [] c = ";" -> "SEMI"
          [] c = "," -> "COMMA" [] c = ":" -> "COLON" [] OTHER -> "DOT"]

\* _match_operator_or_punct(ch), lx the position after ch: the kind matched
\* ("" for None), whether a second character was taken, and the error
MatchOperatorOrPunct(src, lx, ch) ==
    LET two(second, both, one) ==
          IF Match(src, lx, second) THEN [kind |-> both, more |-> TRUE, err |-> "none"]
          ELSE [kind |-> one, more |-> FALSE, err |-> "none"]
    IN  CASE ch = "=" -> two("=", "EQEQ", "EQ")
          [] ch = "!" -> two("=", "BANGEQ", "BANG")
          [] ch = "<" -> two("=", "LTE", "LT")
          [] ch = ">" -> two("=", "GTE", "GT")
          [] ch = "&" -> two("&", "ANDAND", "AMP")
          [] ch = "|" ->
               IF Match(src, lx, "|") THEN [kind |-> "OROR", more |-> TRUE, err |-> "none"]
               ELSE [kind |-> "", more |-> FALSE, err |-> "Unexpected character"]
          [] ch = "-" /\ Match(src, lx, ">") ->
               [kind |-> "ARROW", more |-> TRUE, err |-> "none"]
          [] OTHER ->
               [kind |-> IF ch \in DOMAIN SingleKinds THEN SingleKinds[ch] ELSE "",
                more |-> FALSE, err |-> "none"]

RECURSIVE TokenizeFrom(_, _, _)
\* Lexer.tokenize: its loop, from position lx with the tokens made so far.
\* No word over the characters of the model is one of KEYWORDS.
TokenizeFrom(src, lx, toks) ==
    LET s == SkipWhitespaceAndComments(src, lx)
        ch == src[s.index]
        a == Advance(src, s)
        \* the token from s up to position e appended, and the loop continued
        emit(kind, e) ==
          LET tok == Token(kind, SubSeq(src, s.index, e.index - 1), s.line, s.col)
          IN  IF tok.exc # "none" THEN LexRaise(tok.err, tok.exc)
              ELSE TokenizeFrom(src, e, Append(toks, tok))
    IN  IF s.err # "none" THEN LexRaise(s.err, "ValueError")
        ELSE IF IsAtEnd(src, s)
        THEN LET eof == Token("EOF", <<>>, s.line, s.col)
             IN  IF eof.exc # "none" THEN LexRaise(eof.err, eof.exc)
                 ELSE Lexed(Append(toks, eof))
        ELSE IF IsAlpha(ch) \/ ch = "_" THEN emit("IDENT", ConsumeIdentTail(src, a))
        ELSE IF IsDigit(ch) THEN emit("INT", ConsumeDigits(src, a))
        ELSE LET matched == MatchOperatorOrPunct(src, a, ch)
             IN  IF matched.err # "none" THEN LexRaise(matched.err, "ValueError")
                 ELSE IF matched.kind # ""
                 THEN emit(matched.kind, IF matched.more THEN Advance(src, a) ELSE a)
                 ELSE LexRaise("Unexpected character", "ValueError")

\* Lexer(source).tokenize()
Tokenize(src) == TokenizeFrom(src, LexerAt(1, 1, 1), <<>>)

(***************************************************************************)
(* The struct declarations the layout engine is run on.                    *)
(***************************************************************************)
\* Layout programs: a struct I of scalars and a struct P that may hold I by
\* value, declared in either order.
InnerTypes == {AstBool, AstI32, AstI64}
OuterTypes == {AstBool, AstI32, AstI64, AstUnit, PtrType(AstI64), NamedType("I")}

LayoutProgram(fi, fp, innerFirst) ==
    IF innerFirst
    THEN <<StructDecl("I", MkFields(fi)), StructDecl("P", MkFields(fp))>>
    ELSE <<StructDecl("P", MkFields(fp)), StructDecl("I", MkFields(fi))>>

\* Containment programs: three structs A, B, C whose fields hold one another
\* by value or through a pointer, declared in every order.
CycleNames == {"A", "B", "C"}
CycleTypes == {NamedType(n) : n \in CycleNames}
                 \cup {PtrType(NamedType(n)) : n \in {"A", "B"}}

Permutations3 ==
    {p \in [1..3 -> CycleNames] : \A i, j \in 1..3 : i # j => p[i] # p[j]}

CycleProgram(order, fs) ==
    [i \in 1..3 |-> StructDecl(order[i], MkFields(fs[order[i]]))]

NoSymRes == LState(EmptyLayouts, <<>>, NoErr)

(***************************************************************************)
(* The functions compiled: fn f(x: i64) -> R { body } beside                *)
(*   extern fn p(v: i64) -> unit;   extern fn c() -> bool;                 *)
(* with R unit or i64.  The body is drawn from the statements below, its   *)
(* size (the number of statement nodes) at most MaxSize.                   *)
(***************************************************************************)
Cond == Call("c", <<>>)

Atoms(R) ==
    { DeferCall(Call("p", <<Var("x")>>)),
      ExprStmt(Assign(Var("x"), IntLit(IntOf(99)))),
      Return(IF IsUnitType(R) THEN NoExpr ELSE Var("x")) }

RECURSIVE StmtsOfSize(_, _)
RECURSIVE BlocksOfSize(_, _)

\* The statements with n nodes; the blocks of a compound statement are not empty.
StmtsOfSize(R, n) ==
    IF n = 1 THEN Atoms(R)
    ELSE {Block(b) : b \in BlocksOfSize(R, n - 1)}
           \cup {If(Cond, b, FALSE, <<>>) : b \in BlocksOfSize(R, n - 1)}
           \cup {While(Cond, b) : b \in BlocksOfSize(R, n - 1)}
           \cup UNION { {If(Cond, t, TRUE, e) : t \in BlocksOfSize(R, j),
                                               e \in BlocksOfSize(R, n - 1 - j)} :
                        j \in 1..(n - 2) }

\* The statement lists with n nodes in all.
BlocksOfSize(R, n) ==
    IF n = 0 THEN {<<>>}
    ELSE UNION { {<<st>> \o b : st \in StmtsOfSize(R, j),
                                b \in BlocksOfSize(R, n - j)} : j \in 1..n }

RECURSIVE RunBlocksOfSize(_, _)
RECURSIVE RunStmtsOfSize(_, _)
RECURSIVE RunSeqsOfSize(_, _)

\* The bodies that are run.  Their size n counts the statements and the
\* scopes they open (a block statement, an if and a while count two, an if
\* with an else three); and a return, when a block has one, is the last
\* statement of its block (what follows a return in its block is never
\* executed).
RunBlocksOfSize(R, n) ==
    IF n <= 0 THEN {<<>>}
    ELSE RunSeqsOfSize(R, n)
           \cup {b \o <<Return(IF IsUnitType(R) THEN NoExpr ELSE Var("x"))>> :
                    b \in RunSeqsOfSize(R, n - 1)}

\* The statements of size n other than return; the blocks of a compound
\* statement are not empty
RunStmtsOfSize(R, n) ==
    IF n = 1 THEN Atoms(R) \ {Return(IF IsUnitType(R) THEN NoExpr ELSE Var("x"))}
    ELSE (IF n < 3 THEN {}
          ELSE {Block(b) : b \in RunBlocksOfSize(R, n - 2)}
                 \cup {If(Cond, b, FALSE, <<>>) : b \in RunBlocksOfSize(R, n - 2)}
                 \cup {While(Cond, b) : b \in RunBlocksOfSize(R, n - 2)})
           \cup UNION { {If(Cond, t, TRUE, e) : t \in RunBlocksOfSize(R, j),
                                               e \in RunBlocksOfSize(R, n - 3 - j)} :
                        j \in 1..(n - 4) }

\* The lists of size n in all of statements other than return
RunSeqsOfSize(R, n) ==
    IF n = 0 THEN {<<>>}
    ELSE UNION { {<<st>> \o b : st \in RunStmtsOfSize(R, j),
                                b \in RunSeqsOfSize(R, n - j)} : j \in 1..n }

\* The other extern functions a program may declare: t1, t2 and t3 return a
\* bool, n and m an i64, r a pointer; g takes two integers, h six, k seven
ExternNames == {"t1", "t2", "t3", "n", "m", "r", "g", "h", "k"}

ExternParamNames == <<"a", "b", "c", "d", "e", "g", "h">>

IntParams(count) == [i \in 1..count |-> Param(ExternParamNames[i], AstI64)]

ExternSig(name) ==
    CASE name \in {"t1", "t2", "t3"} -> FnSig(name, <<>>, AstBool, TRUE)
      [] name \in {"n", "m"} -> FnSig(name, <<>>, AstI64, TRUE)
      [] name = "r" -> FnSig(name, <<>>, PtrType(AstI64), TRUE)
      [] name = "g" -> FnSig(name, IntParams(2), AstI64, TRUE)
      [] name = "h" -> FnSig(name, IntParams(6), AstI64, TRUE)
      [] name = "k" -> FnSig(name, IntParams(7), AstI64, TRUE)

ProgramFn(R, body) == FnDecl("f", <<Param("x", AstI64)>>, R, body)

\* GlobalSymbols.functions of the program holding f (build_global_symbols)
ProgramFunctions(f) ==
    [n \in {"p", "c"} \cup ExternNames \cup {f.name} |->
        CASE n = "p" -> FnSig("p", <<Param("v", AstI64)>>, AstUnit, TRUE)
          [] n = "c" -> FnSig("c", <<>>, AstBool, TRUE)
          [] n \in ExternNames -> ExternSig(n)
          [] OTHER -> FnSig(f.name, f.params, f.ret, FALSE)]

NoFn == FnDecl("", <<>>, AstUnit, <<>>)

IdleSym == decls = <<>> /\ symres = NoSymRes

IdleLower == fn = NoFn /\ lowered = NotLowered /\ relowered = NotLowered

RegNames == {"rax", "rcx", "rdx", "rsi", "rdi", "r8", "r9", "rbp", "rsp"}

\* The arguments the caller passes to f
ArgValues == {7, 8}

\* What a read of memory that was never written may yield
UninitValues == {0, 1}

IdleCpu == [pc |-> 0, regs |-> [r \in RegNames |-> 0], zf |-> FALSE,
            lt |-> FALSE, mem |-> <<>>]

IdleExec == asm = NotEmitted /\ cpu = IdleCpu /\ log = <<>> /\ trues = 0

IdleTC ==
    checked = NotChecked /\ tcenv = NoEnv /\ subject = NoExpr /\ typed = NotTyped

NotLexed == [tokens |-> <<>>, err |-> "not lexed", exc |-> "none"]

IdleLex == source = <<>> /\ tokens = NotLexed

(***************************************************************************)
(* main.py --symbols: build_global_symbols on the parsed program.          *)
(***************************************************************************)
BuildGlobalSymbols ==
    /\ phase = "parsed"
    /\ symres' = BuildGlobalSymbolsResult(decls)
    /\ phase' = "symbols"
    /\ UNCHANGED <<decls, lowerVars, execVars, tcVars, lexVars>>

InitLayout ==
    /\ phase = "parsed"
    /\ \E fi \in SeqsUpTo(InnerTypes, MaxInnerFields),
          fp \in SeqsUpTo(OuterTypes, MaxFields), innerFirst \in BOOLEAN :
            decls = LayoutProgram(fi, fp, innerFirst)
    /\ symres = NoSymRes
    /\ IdleLower
    /\ IdleExec
    /\ IdleTC
    /\ IdleLex

InitCycle ==
    /\ phase = "parsed"
    /\ \E order \in Permutations3,
          fs \in [CycleNames -> SeqsUpTo(CycleTypes, MaxCycleFields)] :
            decls = CycleProgram(order, fs)
    /\ symres = NoSymRes
    /\ IdleLower
    /\ IdleExec
    /\ IdleTC
    /\ IdleLex

NextSym == BuildGlobalSymbols

SpecLayout == InitLayout /\ [][NextSym]_vars

SpecCycle == InitCycle /\ [][NextSym]_vars

(***************************************************************************)
(* main.py --lower: lower_program on the checked program; and lower_program *)
(* applied once more to its own output.                                    *)
(***************************************************************************)
Lower ==
    /\ phase = "checked"
    /\ lowered' = LowerProgram(fn, ProgramFunctions(fn))
    /\ phase' = "lowered"
    /\ UNCHANGED <<symVars, fn, relowered, execVars, tcVars, lexVars>>

LowerAgain ==
    /\ phase = "lowered"
    /\ lowered.err = "none"
    /\ relowered' = LowerProgram(lowered.fn, ProgramFunctions(fn))
    /\ phase' = "relowered"
    /\ UNCHANGED <<symVars, fn, lowered, execVars, tcVars, lexVars>>

InitLower ==
    /\ phase = "checked"
    /\ \E R \in {AstUnit, AstI64}, n \in 0..MaxSize :
         \E body \in BlocksOfSize(R, n) : fn = ProgramFn(R, body)
    /\ lowered = NotLowered
    /\ relowered = NotLowered
    /\ IdleSym
    /\ IdleExec
    /\ IdleTC
    /\ IdleLex

NextLower == Lower \/ LowerAgain

SpecLower == InitLower /\ [][NextLower]_vars

(***************************************************************************)
(* main.py --emit: lower_program, then Codegen on the lowered function;    *)
(* and the machine that runs the emitted lines, one instruction a step.    *)
(* Registers hold signed integers.  Memory maps the addresses of the bytes *)
(* that were written to the byte stored, in two's complement and little    *)
(* endian.  The caller enters f with its argument in rdi and the return    *)
(* address pushed, so rsp is 8 past a multiple of 16 at entry.             *)
(***************************************************************************)
\* The state in which the caller's call instruction leaves the machine: the
\* return address (0 stands for it) pushed, pc at the function's label
EntryCpu(arg) ==
    [pc |-> 1,
     regs |-> [r \in RegNames |->
                 CASE r = "rsp" -> 4096 - 8 [] r = "rbp" -> 4096 + 64
                   [] r = "rdi" -> arg [] OTHER -> 0],
     zf |-> FALSE,
     lt |-> FALSE,
     mem |-> [a \in (4096 - 8)..(4096 - 1) |-> 0]]

\* The line a jump to a label continues at
LabelIndex(lines, label) ==
    CHOOSE i \in 1..Len(lines) : lines[i].op = "label" /\ lines[i].a = label

\* 256^i for the bytes of the low dword
Pow256(i) == CASE i = 0 -> 1 [] i = 1 -> 256 [] i = 2 -> 65536 [] i = 3 -> 16777216

\* Byte i of the 8 bytes of v.  Every value of the model is in the signed
\* 32-bit range, so that the high dword is the sign extension.
ByteOf(v, i) ==
    IF v >= 0 THEN (IF i < 4 THEN (v \div Pow256(i)) % 256 ELSE 0)
    ELSE (IF i < 4 THEN 255 - ((((0 - v) - 1) \div Pow256(i)) % 256) ELSE 255)

\* The low w bytes of v, zero-extended (w < 8)
Truncate(v, w) == IF w = 1 THEN v % 256 ELSE v

\* Memory after a store of w bytes of value v at address a
MemStore(mem, a, v, w) ==
    [x \in DOMAIN mem \cup (a..(a + w - 1)) |->
        IF x \in a..(a + w - 1) THEN ByteOf(v, x - a) ELSE mem[x]]

\* The first of the w bytes at address a that was never written, w if all
\* were
FirstUnwritten(mem, a, w) ==
    IF \A i \in 0..(w - 1) : a + i \in DOMAIN mem THEN w
    ELSE CHOOSE i \in 0..(w - 1) :
            /\ a + i \notin DOMAIN mem
            /\ \A j \in 0..(i - 1) : a + j \in DOMAIN mem

\* Byte i of a load at address a, u what the first unwritten byte holds
LoadByte(mem, a, i, first, u) ==
    IF a + i \in DOMAIN mem THEN mem[a + i] ELSE IF i = first THEN u ELSE 0

\* The number the w bytes at address a are: a byte and a dword zero-extended,
\* a qword signed
LoadValue(mem, a, w, first, u) ==
    IF w = 8 /\ LoadByte(mem, a, 7, first, u) >= 128
    THEN 0 - (1 + (255 - LoadByte(mem, a, 0, first, u))
                + (255 - LoadByte(mem, a, 1, first, u)) * 256
                + (255 - LoadByte(mem, a, 2, first, u)) * 65536
                + (255 - LoadByte(mem, a, 3, first, u)) * 16777216)
    ELSE LoadByte(mem, a, 0, first, u)
         + (IF w > 1
            THEN LoadByte(mem, a, 1, first, u) * 256
                 + LoadByte(mem, a, 2, first, u) * 65536
                 + LoadByte(mem, a, 3, first, u) * 16777216
            ELSE 0)

\* The values a load of w bytes at address a may yield: the bytes written,
\* and in the first byte never written any of UninitValues
MemLoad(mem, a, w) ==
    IF FirstUnwritten(mem, a, w) = w THEN {LoadValue(mem, a, w, w, 0)}
    ELSE {LoadValue(mem, a, w, FirstUnwritten(mem, a, w), u) : u \in UninitValues}

\* The offset below rbp of the slot of f's parameter x
SourceArgOffset(f) ==
    EnvLookup(EmitParams(f.params, 1, EnvPush(NewCodegen(EmptyLayouts))),
              "x").offset

\* An entry of the log: a defer statement passed (ev "register", arg the
\* value its argument x has then) or an extern function called (ev "call",
\* arg the value in rdi, args the values in the six argument registers,
\* result what the callee returns in rax); rsp is the stack pointer at that
\* moment
LogEntry(ev, ins, arg, R, result) ==
    [ev |-> ev, tag |-> ins.tag, src |-> ins.src, arg |-> arg,
     rsp |-> R["rsp"], args |-> [i \in 1..6 |-> R[ArgRegs[i]]],
     result |-> result]

\* What an extern function may leave in rax: c answers true at most MaxTrue
\* times in a run, so that every loop ends
CallResults(callee) ==
    IF callee = "c" /\ trues >= MaxTrue THEN {0} ELSE {0, 1}

\* Is the condition code true after a cmp
ConditionHolds(cc, c) ==
    CASE cc = "e" -> c.zf [] cc = "ne" -> ~c.zf
      [] cc = "l" -> c.lt [] cc = "le" -> c.lt \/ c.zf
      [] cc = "g" -> ~c.lt /\ ~c.zf [] cc = "ge" -> ~c.lt

\* The quotient idiv leaves in rax: truncated toward zero
IdivQuotient(a, b) ==
    IF (a < 0) = (b < 0)
    THEN (IF a < 0 THEN 0 - a ELSE a) \div (IF b < 0 THEN 0 - b ELSE b)
    ELSE 0 - ((IF a < 0 THEN 0 - a ELSE a) \div (IF b < 0 THEN 0 - b ELSE b))

\* The remainder idiv leaves in rdx: it has the sign of the dividend
IdivRemainder(a, b) == a - IdivQuotient(a, b) * b

\* The registers and memory after the instruction ins, for the instructions
\* that only move data and compute.  idiv divides rdx:rax, which cqo has made
\* the sign extension of rax.
DataStep(ins, c) ==
    LET R == c.regs
    IN  CASE ins.op = "push" ->
               [c EXCEPT !.regs["rsp"] = @ - 8,
                         !.mem = MemStore(c.mem, R["rsp"] - 8, R[ins.b], 8)]
          [] ins.op = "mov" -> [c EXCEPT !.regs[ins.a] = R[ins.b]]
          [] ins.op = "movi" -> [c EXCEPT !.regs[ins.a] = ins.n]
          [] ins.op = "xor" ->
               [c EXCEPT !.regs[ins.a] = IF ins.a = ins.b THEN 0 ELSE @]
          [] ins.op = "subi" -> [c EXCEPT !.regs[ins.a] = @ - ins.n]
          [] ins.op = "addi" -> [c EXCEPT !.regs[ins.a] = @ + ins.n]
          [] ins.op = "lea" -> [c EXCEPT !.regs[ins.a] = R[ins.b] + ins.n]
          [] ins.op = "store" ->
               [c EXCEPT !.mem = MemStore(c.mem, R[ins.a] + ins.n, R[ins.b], ins.w)]
          [] ins.op = "cmpi" ->
               [c EXCEPT !.zf = (R[ins.a] = ins.n), !.lt = (R[ins.a] < ins.n)]
          [] ins.op = "cmp" ->
               [c EXCEPT !.zf = (R[ins.a] = R[ins.b]), !.lt = (R[ins.a] < R[ins.b])]
          [] ins.op = "set" ->
               [c EXCEPT !.regs["rax"] =
                   (@ - (@ % 256)) + (IF ConditionHolds(ins.b, c) THEN 1 ELSE 0)]
          [] ins.op = "movzx" -> [c EXCEPT !.regs[ins.a] = R["rax"] % 256]
          [] ins.op = "neg" -> [c EXCEPT !.regs[ins.a] = 0 - @]
          [] ins.op = "add" -> [c EXCEPT !.regs[ins.a] = @ + R[ins.b]]
          [] ins.op = "sub" -> [c EXCEPT !.regs[ins.a] = @ - R[ins.b]]
          [] ins.op = "imul" -> [c EXCEPT !.regs[ins.a] = @ * R[ins.b]]
          [] ins.op = "cqo" ->
               [c EXCEPT !.regs["rdx"] = IF R["rax"] < 0 THEN 0 - 1 ELSE 0]
          [] ins.op = "idiv" ->
               [c EXCEPT !.regs["rax"] = IdivQuotient(R["rax"], R[ins.a]),
                         !.regs["rdx"] = IdivRemainder(R["rax"], R[ins.a])]
          [] OTHER -> c

\* One instruction of the emitted code
Step ==
    /\ phase = "running"
    /\ LET ins == asm.lines[cpu.pc]
           R == cpu.regs
           next == [DataStep(ins, cpu) EXCEPT !.pc = @ + 1]
       IN  CASE ins.op \in {"load", "pop"} ->
                  LET addr == IF ins.op = "pop" THEN R["rsp"] ELSE R[ins.b] + ins.n
                  IN  /\ \E v \in MemLoad(cpu.mem, addr, ins.w) :
                             cpu' = [next EXCEPT
                                       !.regs[ins.a] = v,
                                       !.regs["rsp"] =
                                           IF ins.op = "pop" THEN R["rsp"] + 8
                                           ELSE R["rsp"]]
                      /\ UNCHANGED <<phase, log, trues>>
             [] ins.op = "jmp" ->
                  /\ cpu' = [cpu EXCEPT !.pc = LabelIndex(asm.lines, ins.a)]
                  /\ UNCHANGED <<phase, log, trues>>
             [] ins.op \in {"je", "jne"} ->
                  /\ cpu' = IF cpu.zf = (ins.op = "je")
                            THEN [cpu EXCEPT !.pc = LabelIndex(asm.lines, ins.a)]
                            ELSE next
                  /\ UNCHANGED <<phase, log, trues>>
             [] ins.op = "loc" ->
                  /\ \E v \in MemLoad(cpu.mem,
                                      R["rbp"] - SourceArgOffset(lowered.fn), 8) :
                         log' = Append(log, LogEntry("register", ins, v, R, 0))
                  /\ cpu' = next
                  /\ UNCHANGED <<phase, trues>>
             [] ins.op = "call" ->
                  /\ \E v \in CallResults(ins.a) :
                        /\ cpu' = [next EXCEPT !.regs["rax"] = v]
                        /\ trues' = IF ins.a = "c" /\ v = 1 THEN trues + 1
                                    ELSE trues
                        /\ log' = Append(log, LogEntry("call", ins, R["rdi"], R, v))
                  /\ UNCHANGED phase
             [] ins.op = "idiv" /\ R[ins.a] = 0 ->
                  /\ phase' = "trapped"
                  /\ UNCHANGED <<cpu, log, trues>>
             [] ins.op = "ret" ->
                  /\ \E v \in MemLoad(cpu.mem, R["rsp"], 8) :
                        cpu' = [cpu EXCEPT !.pc = v, !.regs["rsp"] = @ + 8]
                  /\ phase' = "returned"
                  /\ UNCHANGED <<log, trues>>
             [] OTHER ->
                  /\ cpu' = next
                  /\ UNCHANGED <<phase, log, trues>>
    /\ UNCHANGED <<symVars, lowerVars, asm, tcVars, lexVars>>

\* Codegen(symbols).emit_program(lowered)
Emit ==
    /\ phase = "lowered"
    /\ lowered.err = "none"
    /\ asm' = EmitFn(lowered.fn, symres.layouts)
    /\ phase' = "emitted"
    /\ UNCHANGED <<symVars, lowerVars, cpu, log, trues, tcVars, lexVars>>

\* The caller calls f
Enter ==
    /\ phase = "emitted"
    /\ asm.err = "none"
    /\ \E arg \in ArgValues : cpu' = EntryCpu(arg)
    /\ phase' = "running"
    /\ UNCHANGED <<symVars, lowerVars, asm, log, trues, tcVars, lexVars>>

InitExec ==
    /\ phase = "checked"
    /\ \E R \in {AstUnit, AstI64}, n \in 0..MaxExecSize :
         \E body \in RunBlocksOfSize(R, n) : fn = ProgramFn(R, body)
    /\ lowered = NotLowered
    /\ relowered = NotLowered
    /\ IdleSym
    /\ IdleExec
    /\ IdleTC
    /\ IdleLex

NextExec == Lower \/ Emit \/ Enter \/ Step

SpecExec == InitExec /\ [][NextExec]_vars

(***************************************************************************)
(* main.py --typecheck: typecheck_program on the parsed program, and after *)
(* it lower_program as main.py --emit goes on.  The functions checked are  *)
(*   fn f(x: i64, b: bool, q: *i64, s: S) -> R { ... return v; ... }       *)
(* beside the extern functions p and c and the structs S and T.            *)
(***************************************************************************)
RetTypes ==
    { AstUnit, AstI64, NamedType("u64"), NamedType("u8"), AstBool,
      PtrType(AstI64), NamedType("S") }

ReturnValues ==
    { NoExpr, IntLit(IntOf(5)), IntLit(IntOf(300)), BoolLit(TRUE), NullLit,
      Var("x"), Var("b"), Var("q"), Var("s"), Call("p", <<Var("x")>>),
      Call("c", <<>>) }

\* The places the return statement stands at
ReturnBodies(v) ==
    { <<Return(v)>>,
      <<Block(<<Return(v)>>)>>,
      <<If(Cond, <<Return(v)>>, FALSE, <<>>)>>,
      <<While(Cond, <<Return(v)>>)>>,
      <<ExprStmt(Assign(Var("x"), IntLit(IntOf(99)))), Return(v)>> }

TcFn(R, body) ==
    FnDecl("f", <<Param("x", AstI64), Param("b", AstBool),
                  Param("q", PtrType(AstI64)), Param("s", NamedType("S"))>>,
           R, body)

\* The GlobalSymbols of the program holding f, which declares the structs
\* S and T beside it
ProgramSymbols(f) ==
    [functions |-> ProgramFunctions(f), structs |-> {"S", "T"},
     struct_layouts |-> symres.layouts]

\* The TypeEnv scopes at a statement of the body of f: the scope of the
\* parameters and the scope _check_block pushes for the body
BodyScopes(f) ==
    Append(DefineParams(f.params, 1, TcState(<< <<>> >>, "none"),
                        ProgramSymbols(f)).scopes, <<>>)

\* typecheck_program; when the body is the one expression statement
\* `subject;`, the type _check_expr gives it is recorded too
Typecheck ==
    /\ phase = "parsed"
    /\ checked' = TypecheckFn(fn, ProgramSymbols(fn))
    /\ tcenv' = CheckFn(fn, ProgramSymbols(fn)).scopes
    /\ typed' = IF subject.k = "None" THEN typed
                ELSE CheckExpr(subject, BodyScopes(fn), ProgramSymbols(fn))
    /\ phase' = IF checked' = "none" THEN "checked" ELSE "rejected"
    /\ UNCHANGED <<symVars, lowerVars, execVars, subject, lexVars>>

InitTC ==
    /\ phase = "parsed"
    /\ \E R \in RetTypes, v \in ReturnValues :
         \E body \in ReturnBodies(v) : fn = TcFn(R, body)
    /\ lowered = NotLowered
    /\ relowered = NotLowered
    /\ IdleSym
    /\ IdleExec
    /\ IdleTC
    /\ IdleLex

NextTC == Typecheck \/ Lower

SpecTC == InitTC /\ [][NextTC]_vars

(***************************************************************************)
(* The type checker on one expression statement:                           *)
(*   fn f(x: i64, y: u64, z: u8, b: bool, u: unit, q: *i64, r: *bool,      *)
(*        s: S, t: T) -> unit { e; }                                       *)
(* where e is a unary or a binary operator on two operands: a parameter,   *)
(* a literal, a negated integer literal, or a call of p or c.  The integer *)
(* literals are 0..MaxSmallLit and the values about the ends of the ranges *)
(* of u8, i64 and u64 and about 2^53.  And on one value e checked against  *)
(* a declared type D or standing as a condition:                           *)
(*   fn f(w: D) -> unit { var v: D = e; }     fn f(w: D) -> unit { w = e; } *)
(*   fn f(w: D) -> unit { f(e); }             fn f(w: D) -> D { return e; } *)
(*   fn f(w: D) -> unit { if e { } }          fn f(w: D) -> unit { while e { } } *)
(***************************************************************************)
MaxSmallLit == 3

LitValues ==
    {IntOf(n) : n \in 0..MaxSmallLit}
      \cup { IntOf(255), IntOf(256), IntAdd(IntPow2(53), IntOf(1)),
             IntSub(IntPow2(63), IntOf(1)), IntPow2(63),
             IntAdd(IntPow2(63), IntOf(1)),
             IntSub(IntPow2(64), IntOf(1)), IntPow2(64) }

ExprParams ==
    << Param("x", AstI64), Param("y", NamedType("u64")), Param("z", NamedType("u8")),
       Param("b", AstBool), Param("u", AstUnit), Param("q", PtrType(AstI64)),
       Param("r", PtrType(AstBool)), Param("s", NamedType("S")),
       Param("t", NamedType("T")) >>

Literals == {IntLit(v) : v \in LitValues}

Operands ==
    Literals \cup {Unary("-", l) : l \in Literals}
      \cup {BoolLit(TRUE), NullLit, Call("p", <<Var("x")>>), Cond}
      \cup {Var(ExprParams[i].name) : i \in 1..Len(ExprParams)}

ArithmeticOps == {"+", "-", "*", "/", "%"}
RelationalOps == {"<", "<=", ">", ">="}
EqualityOps == {"==", "!="}
LogicalOps == {"&&", "||"}
UnaryOps == {"-", "!", "*", "&"}

ExprFn(e) == FnDecl("f", ExprParams, AstUnit, <<ExprStmt(e)>>)

DeclaredTypes ==
    { AstI64, NamedType("u64"), NamedType("u8"), AstBool, AstUnit,
      PtrType(AstI64), PtrType(PtrType(AstBool)), NamedType("S") }

\* The values checked against a declared type: integer literals, negated
\* or in arithmetic with the literal 1; null; true
ValueExprs ==
    Literals \cup {Unary("-", l) : l \in Literals}
      \cup {Binary(op, l, IntLit(IntOf(1))) : op \in ArithmeticOps, l \in Literals}
      \cup {NullLit, BoolLit(TRUE)}

ValuePositions == {"init", "assign", "argument", "return"}

CondPositions == {"if", "while"}

PositionFn(pos, D, e) ==
    FnDecl("f", <<Param("w", D)>>, IF pos = "return" THEN D ELSE AstUnit,
           CASE pos = "init" -> <<VarDecl("v", D, e)>>
             [] pos = "assign" -> <<ExprStmt(Assign(Var("w"), e))>>
             [] pos = "argument" -> <<ExprStmt(Call("f", <<e>>))>>
             [] pos = "return" -> <<Return(e)>>
             [] pos = "if" -> <<If(e, <<>>, FALSE, <<>>)>>
             [] pos = "while" -> <<While(e, <<>>)>>)

InitExpr ==
    /\ phase = "parsed"
    /\ \/ /\ \/ \E op \in ArithmeticOps \cup RelationalOps \cup EqualityOps
                              \cup LogicalOps :
                  \E l \in Operands, r \in Operands : subject = Binary(op, l, r)
             \/ \E op \in UnaryOps : \E e \in Operands : subject = Unary(op, e)
          /\ fn = ExprFn(subject)
       \/ \E pos \in ValuePositions \cup CondPositions, D \in DeclaredTypes :
             /\ subject \in ValueExprs
             /\ fn = PositionFn(pos, D, subject)
    /\ lowered = NotLowered
    /\ relowered = NotLowered
    /\ checked = NotChecked
    /\ tcenv = NoEnv
    /\ typed = NotTyped
    /\ IdleSym
    /\ IdleExec
    /\ IdleLex

SpecExpr == InitExpr /\ [][NextTC]_vars

(***************************************************************************)
(* The type checker on nested scopes:                                      *)
(*   fn f(x: i64) -> unit { first  nested  last }                          *)
(* where first and last are absent, a declaration `var n: T = ...;` or a   *)
(* use `n = ...;` of x or v as an i64 or a bool, and nested is a block, a  *)
(* while or an if/else of up to MaxBlockLen of them, or a block holding a  *)
(* block.                                                                  *)
(***************************************************************************)
MaxBlockLen == 2

ScopeNames == {"x", "v"}

ScopeTypes == {AstI64, AstBool}

\* A literal of the type
ValueOf(type_ast) == IF type_ast = AstBool THEN BoolLit(TRUE) ELSE IntLit(IntOf(1))

Declare(n, type_ast) == VarDecl(n, type_ast, ValueOf(type_ast))

Use(n, type_ast) == ExprStmt(Assign(Var(n), ValueOf(type_ast)))

Declares == {Declare(n, ty) : n \in ScopeNames, ty \in ScopeTypes}

Uses == {Use(n, ty) : n \in ScopeNames, ty \in ScopeTypes}

Leaves == Declares \cup Uses

NestedStmts ==
    {Block(b) : b \in SeqsUpTo(Leaves, MaxBlockLen)}
      \cup {While(Cond, b) : b \in SeqsUpTo(Leaves, 1)}
      \cup {If(Cond, t, e # <<>>, e) : t \in SeqsUpTo(Leaves, 1), e \in SeqsUpTo(Leaves, 1)}
      \cup {Block(<<d, Block(<<l>>), u>>) : d \in Declares, l \in Leaves, u \in Uses}

ScopeFn(body) == FnDecl("f", <<Param("x", AstI64)>>, AstUnit, body)

InitScope ==
    /\ phase = "parsed"
    /\ \E first \in SeqsUpTo(Leaves, 1), last \in SeqsUpTo(Leaves, 1) :
          \E nested \in NestedStmts : fn = ScopeFn(first \o <<nested>> \o last)
    /\ lowered = NotLowered
    /\ relowered = NotLowered
    /\ IdleSym
    /\ IdleExec
    /\ IdleTC
    /\ IdleLex

SpecScope == InitScope /\ [][NextTC]_vars

(***************************************************************************)
(* main.py on functions with slots of every size: a program that declares  *)
(* struct S (when a parameter has that type) and                            *)
(*   fn f(a: ..., b: ...) -> R { ... var v1: T1 = ...; ... var v2: T2 = ...; } *)
(* with up to MaxFrameParams parameters and two locals of the types i64,   *)
(* i32, bool, unit and S, the locals side by side, in a block, in the two  *)
(* branches of an if, or in a while beside a defer.  The symbols are built, *)
(* the program is checked; lower_program and Codegen follow.               *)
(***************************************************************************)
MaxFrameParams == 2

FrameTypes == {AstI64, AstI32, AstBool, AstUnit, NamedType("S")}

FrameParamNames == <<"a", "b", "c", "d", "e", "g">>

FrameParams(ps) == [i \in 1..Len(ps) |-> Param(FrameParamNames[i], ps[i])]

\* A value of the type: a literal, a call of p for unit, and for S the first
\* parameter of that type
FrameValue(ps, type_ast) ==
    CASE type_ast = AstBool -> BoolLit(TRUE)
      [] type_ast = AstUnit -> Call("p", <<IntLit(IntOf(1))>>)
      [] type_ast = NamedType("S") ->
           Var(FrameParamNames[CHOOSE i \in 1..Len(ps) : ps[i] = NamedType("S")])
      [] OTHER -> IntLit(IntOf(1))

FrameShapes == {"flat", "block", "if", "while"}

FrameFn(ps, t1, t2, shape) ==
    LET d1 == VarDecl("v1", t1, FrameValue(ps, t1))
        d2 == VarDecl("v2", t2, FrameValue(ps, t2))
    IN  CASE shape = "flat" ->
               FnDecl("f", FrameParams(ps), AstI64, <<d1, d2, Return(IntLit(IntOf(1)))>>)
          [] shape = "block" ->
               FnDecl("f", FrameParams(ps), AstUnit, <<Block(<<d1>>), d2>>)
          [] shape = "if" ->
               FnDecl("f", FrameParams(ps), AstUnit, <<If(Cond, <<d1>>, TRUE, <<d2>>)>>)
          [] shape = "while" ->
               FnDecl("f", FrameParams(ps), AstUnit,
                      << While(Cond, <<d1, DeferCall(Call("p", <<IntLit(IntOf(1))>>))>>),
                         d2 >>)

InitFrame ==
    /\ phase = "checked"
    /\ \E ps \in SeqsUpTo(FrameTypes, MaxFrameParams) :
          /\ IF NamedType("S") \in Range(ps)
             THEN \E fs \in SeqsUpTo(InnerTypes, MaxInnerFields) :
                     decls = <<StructDecl("S", MkFields(fs))>>
             ELSE decls = <<>>
          /\ \E t1 \in FrameTypes, t2 \in FrameTypes, shape \in FrameShapes :
                /\ NamedType("S") \in {t1, t2} => NamedType("S") \in Range(ps)
                /\ fn = FrameFn(ps, t1, t2, shape)
    /\ symres = BuildGlobalSymbolsResult(decls)
    /\ lowered = NotLowered
    /\ relowered = NotLowered
    /\ IdleExec
    /\ IdleTC
    /\ IdleLex

NextFrame == Lower \/ Emit

SpecFrame == InitFrame /\ [][NextFrame]_vars

(***************************************************************************)
(* main.py and the errors of its stages: the lexer on a source text of up  *)
(* to MaxSourceLen characters; and typecheck_program and lower_program on  *)
(* a parsed program, the functions of the return-statement programs and    *)
(* functions that name the undeclared type U.                              *)
(***************************************************************************)
MaxSourceLen == 3

LexAlphabet == {"a", "1", " ", "\n", "/", "*", "|", "=", "@"}

UnknownType == NamedType("U")

ErrorFns ==
    { FnDecl("f", <<Param("x", UnknownType)>>, AstUnit, <<>>),
      FnDecl("f", <<Param("x", PtrType(UnknownType))>>, AstUnit, <<>>),
      FnDecl("f", <<>>, UnknownType, <<>>),
      FnDecl("f", <<>>, AstUnit, <<VarDecl("v", UnknownType, IntLit(IntOf(1)))>>),
      FnDecl("f", <<>>, AstUnit, <<ExprStmt(Call("g", <<>>))>>),
      FnDecl("f", <<>>, AstUnit, <<ExprStmt(Var("v"))>>) }

\* Lexer(source).tokenize()
Lex ==
    /\ phase = "source"
    /\ tokens' = Tokenize(source)
    /\ phase' = IF tokens'.err = "none" THEN "lexed" ELSE "lex failed"
    /\ UNCHANGED <<symVars, lowerVars, execVars, tcVars, source>>

InitErrors ==
    /\ \/ /\ phase = "source"
          /\ source \in SeqsUpTo(LexAlphabet, MaxSourceLen)
          /\ fn = NoFn
       \/ /\ phase = "parsed"
          /\ source = <<>>
          /\ \/ \E R \in RetTypes, v \in ReturnValues :
                   \E body \in ReturnBodies(v) : fn = TcFn(R, body)
             \/ fn \in ErrorFns
    /\ tokens = NotLexed
    /\ lowered = NotLowered
    /\ relowered = NotLowered
    /\ IdleSym
    /\ IdleExec
    /\ IdleTC

NextErrors == Lex \/ Typecheck \/ Lower

SpecErrors == InitErrors /\ [][NextErrors]_vars

(***************************************************************************)
(* Struct layout properties.                                               *)
(***************************************************************************)
Built == phase = "symbols" /\ symres.err.kind = "none"

LayoutOf(n) == symres.layouts[n]

\* The least multiple of a that is >= x.
LeastMultipleGE(a, x) == CHOOSE m \in x..(x + a - 1) : m % a = 0

EndOf(fl) == fl.offset + fl.size

MaxAlignOf(fls) ==
    IF Len(fls) = 0 THEN 1
    ELSE CHOOSE a \in {fls[i].align : i \in 1..Len(fls)} :
            \A i \in 1..Len(fls) : fls[i].align <= a

\* C6 (P1): in every layout produced, each field's offset is a multiple of the
\* field's alignment and the struct's size is a multiple of the struct's
\* alignment, also for a struct nested by value in another.
C6_LayoutAligned ==
    Built =>
      \A n \in DOMAIN symres.layouts :
        /\ LayoutOf(n).size % LayoutOf(n).align = 0
        /\ \A i \in 1..Len(LayoutOf(n).fields) :
              LayoutOf(n).fields[i].offset % LayoutOf(n).fields[i].align = 0

\* A layout with a by-value nested struct placed after padding.
C6_Witness ==
    /\ Built
    /\ "P" \in DOMAIN symres.layouts
    /\ \E i \in 2..Len(LayoutOf("P").fields) :
          /\ LayoutOf("P").fields[i].type_ast = NamedType("I")
          /\ LayoutOf("P").fields[i].align = 8
          /\ LayoutOf("P").fields[i].offset > EndOf(LayoutOf("P").fields[i - 1])

\* C7: the layout is the reference layout: fields in declaration order, each at
\* the least multiple of its alignment at or after the end of the previous
\* field, no two fields overlapping, the struct aligned to its largest field
\* alignment and sized to the least multiple of it at or after the last field's
\* end; struct P { a: bool; b: i64; c: bool; } has b at 8, c at 16, size 24.
C7_ReferenceLayout ==
    Built =>
      \A d \in Range(decls) :
        LET L == LayoutOf(d.name)
            F == L.fields
        IN  /\ Len(F) = Len(d.fields)
            /\ \A i \in 1..Len(F) :
                  /\ F[i].name = d.fields[i].name
                  /\ F[i].type_ast = d.fields[i].type_ast
                  /\ F[i].offset =
                       LeastMultipleGE(F[i].align,
                                       IF i = 1 THEN 0 ELSE EndOf(F[i - 1]))
            /\ \A i, j \in 1..Len(F) : i < j => EndOf(F[i]) <= F[j].offset
            /\ L.align = MaxAlignOf(F)
            /\ L.size = LeastMultipleGE(L.align,
                            IF Len(F) = 0 THEN 0 ELSE EndOf(F[Len(F)]))
            /\ (d.fields = MkFields(<<AstBool, AstI64, AstBool>>) =>
                  /\ F[2].offset = 8
                  /\ F[3].offset = 16
                  /\ L.size = 24)

\* struct P { a: bool; b: i64; c: bool; } laid out.
C7_Witness ==
    /\ Built
    /\ \E d \in Range(decls) :
          /\ d.fields = MkFields(<<AstBool, AstI64, AstBool>>)
          /\ LayoutOf(d.name).size = 24
          /\ LayoutOf(d.name).fields[2].offset = 8


(***************************************************************************)
(* Recursive structs.                                                      *)
(***************************************************************************)
StructNames(ds) == {ds[i].name : i \in 1..Len(ds)}

\* The by-value containment graph: S -> T when S has a field of type T.
ByValueEdges(ds) ==
    {e \in StructNames(ds) \X StructNames(ds) :
        \E i \in 1..Len(ds) :
          /\ ds[i].name = e[1]
          /\ \E j \in 1..Len(ds[i].fields) :
                ds[i].fields[j].type_ast = NamedType(e[2])}

\* A cycle of the graph: a walk of at most as many structs as there are,
\* whose last struct contains the first by value
HasByValueCycle(ds) ==
    LET E == ByValueEdges(ds)
        N == StructNames(ds)
    IN  \E k \in 1..Cardinality(N) :
          \E s \in [1..k -> N] :
             /\ \A i \in 1..(k - 1) : <<s[i], s[i + 1]>> \in E
             /\ <<s[k], s[1]>> \in E

\* C8: build_global_symbols fails with the illegal-recursive-struct error
\* exactly when the by-value containment graph has a cycle, in every
\* declaration order; pointer fields are no edges, and without a cycle every
\* struct gets a layout.
C8_RecursiveIffCycle ==
    phase = "symbols" =>
      /\ (symres.err.kind = "recursive") <=> HasByValueCycle(decls)
      /\ ~HasByValueCycle(decls) =>
            /\ symres.err.kind = "none"
            /\ DOMAIN symres.layouts = StructNames(decls)

\* Two structs that refer to each other through pointers only, and a third
\* holding one of them by value, all laid out.
C8_Witness ==
    /\ Built
    /\ DOMAIN symres.layouts = CycleNames
    /\ \E i, j \in 1..Len(decls) :
          /\ decls[i].name = "A" /\ decls[i].fields = MkFields(<<PtrType(NamedType("B"))>>)
          /\ decls[j].name = "B" /\ decls[j].fields = MkFields(<<PtrType(NamedType("A"))>>)
    /\ LayoutOf("A").size = 8

\* C9: the path in the illegal-recursive-struct error is the cycle itself: it
\* starts and ends with the struct that was met again and follows by-value
\* containment, also when the cycle is entered from a struct outside it.
C9_PathIsCycle ==
    (phase = "symbols" /\ symres.err.kind = "recursive") =>
      LET path == symres.err.path
      IN  /\ Len(path) >= 2
          /\ path[1] = path[Len(path)]
          /\ \A i \in 1..(Len(path) - 1) :
                <<path[i], path[i + 1]>> \in ByValueEdges(decls)


(***************************************************************************)
(* Lowering properties.                                                    *)
(***************************************************************************)
RECURSIVE Flatten(_)
\* Every statement node of a statement list, at any depth, in textual order.
Flatten(stmts) ==
    IF Len(stmts) = 0 THEN <<>>
    ELSE LET st == Head(stmts)
             inner ==
               CASE st.k = "Block" -> Flatten(st.stmts)
                 [] st.k = "If" -> Flatten(st.then_block) \o Flatten(st.else_block)
                 [] st.k = "While" -> Flatten(st.body)
                 [] st.k = "LabeledBlock" -> Flatten(st.block)
                 [] OTHER -> <<>>
         IN  <<st>> \o inner \o Flatten(Tail(stmts))

KindCount(nodes, kind) == Cardinality({i \in 1..Len(nodes) : nodes[i].k = kind})

LoweredOk == phase \in {"lowered", "relowered"} /\ lowered.err = "none"

\* C4 (P2): after lowering, the body's last statement is the one block
\* labelled __fn_exit_<fn>, holding the function's only Return; no Return
\* remains anywhere else, at any depth, and every Goto targets that label.
C4_SingleExit ==
    LoweredOk =>
      LET body == lowered.fn.body
          n == Len(body)
          before == Flatten(SubSeq(body, 1, n - 1))
          all == Flatten(body)
      IN  /\ n >= 1
          /\ body[n].k = "LabeledBlock"
          /\ body[n].label = ExitLabel(fn.name)
          /\ Len(body[n].block) = 1
          /\ body[n].block[1].k = "Return"
          /\ KindCount(all, "LabeledBlock") = 1
          /\ KindCount(before, "Return") = 0
          /\ KindCount(all, "Goto") = KindCount(Flatten(fn.body), "Return")
          /\ \A i \in 1..Len(all) :
                all[i].k = "Goto" => all[i].label = ExitLabel(fn.name)

\* A function whose returns sit in both branches of an if inside a loop.
C4_Witness ==
    /\ LoweredOk
    /\ fn.body = <<While(Cond, <<If(Cond, <<Return(Var("x"))>>, TRUE,
                                     <<Return(Var("x"))>>)>>)>>
    /\ KindCount(Flatten(lowered.fn.body), "Goto") = 2

\* C5: lowering is idempotent: lowering the lowered program gives the lowered
\* program again.
C5_LowerIdempotent ==
    phase = "relowered" => (relowered.err = "none" /\ relowered.fn = lowered.fn)

(***************************************************************************)
(* Defer properties, of the emitted code as the machine runs it.           *)
(***************************************************************************)
IsRegister(e) == e.ev = "register"

\* A call emitted by _emit_defers or _emit_defers_all
IsDeferredRun(e) == e.ev = "call" /\ e.tag = "defer"

\* How many entries of the log satisfy ev/tag of the given kind for a Call
Registered(src) ==
    Cardinality({i \in 1..Len(log) : IsRegister(log[i]) /\ log[i].src = src})

DeferredRuns(src) ==
    Cardinality({i \in 1..Len(log) : IsDeferredRun(log[i]) /\ log[i].src = src})

RECURSIVE PendingAfter(_, _, _)
\* The stack of defer statements passed and not yet run, after the entries
\* of l from i on: a register pushes, a deferred call pops; ok turns false
\* when a deferred call is not the one on top
PendingAfter(l, i, st) ==
    IF i > Len(l) THEN st
    ELSE LET e == l[i]
             top == st.stack[Len(st.stack)]
         IN  PendingAfter(l, i + 1,
               CASE IsRegister(e) -> [st EXCEPT !.stack = Append(@, e)]
                 [] IsDeferredRun(e) ->
                      IF st.stack # <<>> /\ top.src = e.src
                      THEN [st EXCEPT !.stack = SubSeq(@, 1, Len(@) - 1)]
                      ELSE [st EXCEPT !.ok = FALSE]
                 [] OTHER -> st)

Pending == PendingAfter(log, 1, [stack |-> <<>>, ok |-> TRUE])

\* C1: when the function has returned, every defer statement that was
\* executed on the path taken has had its call run exactly once: for each
\* deferred Call, as many runs as executions of its defer statement.
C1_DefersRunOnce ==
    phase = "returned" =>
      \A i \in 1..Len(log) : Registered(log[i].src) = DeferredRuns(log[i].src)

\* The machine is about to take the jmp of a Goto
AtGotoJmp ==
    /\ phase = "running"
    /\ asm.lines[cpu.pc].op = "jmp"
    /\ asm.lines[cpu.pc].tag = "goto"

\* C2: at the jmp of a Goto every pending defer of every open scope has been
\* run, each deferred call being the most recently executed defer statement
\* still pending (so the runs are the reverse of the executions, innermost
\* scope first), and no call of a scope that already exited ran again.
C2_GotoReplaysAllLifo ==
    AtGotoJmp => (Pending.ok /\ Pending.stack = <<>>)

\* A goto inside a nested block, with a defer of the function body and a
\* defer of the nested block both replayed before the jump.
C2_Witness ==
    /\ AtGotoJmp
    /\ fn.body[1].k = "DeferCall"
    /\ Len(fn.body) = 2
    /\ fn.body[2].k \in {"Block", "If", "While"}
    /\ \E i, j \in 1..Len(log) :
          /\ i < j
          /\ IsDeferredRun(log[i]) /\ IsDeferredRun(log[j])
          /\ log[i].src # log[j].src
          /\ log[j].src = log[1].src

RECURSIVE BlocksIn(_)
\* Every statement list of a body: the body and the blocks nested in it
BlocksIn(stmts) ==
    {stmts} \cup
    UNION { CASE stmts[i].k = "Block" -> BlocksIn(stmts[i].stmts)
              [] stmts[i].k = "If" ->
                   BlocksIn(stmts[i].then_block) \cup BlocksIn(stmts[i].else_block)
              [] stmts[i].k = "While" -> BlocksIn(stmts[i].body)
              [] stmts[i].k = "LabeledBlock" -> BlocksIn(stmts[i].block)
              [] OTHER -> {} : i \in 1..Len(stmts) }

\* The names a function declares: its parameters and its VarDecls
DeclaredNames(f) ==
    LET all == Flatten(f.body)
    IN  [i \in 1..(Len(f.params) + Len(all)) |->
            IF i <= Len(f.params) THEN f.params[i].name
            ELSE IF all[i - Len(f.params)].k = "VarDecl"
                 THEN all[i - Len(f.params)].name ELSE ""]

\* In the lowered body, the defer at position i of block b has one local per
\* argument declared just before it: typed as the callee's parameter,
\* initialised with the argument of the source (x), declared nowhere else,
\* and passed in place of the argument
CapturedAt(b, i) ==
    LET call == b[i].call
        n == Len(call.args)
        sig == ProgramFunctions(fn)[call.callee]
        names == DeclaredNames(lowered.fn)
    IN  /\ i > n
        /\ \A j \in 1..n :
              LET d == b[i - n + j - 1]
              IN  /\ d.k = "VarDecl"
                  /\ call.args[j] = Var(d.name)
                  /\ d.type_ast = sig.params[j].type_ast
                  /\ d.init = Var("x")
                  /\ Cardinality({h \in 1..Len(names) : names[h] = d.name}) = 1

ReturnValueOf(body) ==
    LET all == Flatten(body)
        i == CHOOSE j \in 1..Len(all) : all[j].k = "Return"
    IN  all[i].value

\* The type the checker gives an expression where only the parameters of f
\* are in scope
TypeInParams(f, expr) ==
    CheckExpr(expr,
              DefineParams(f.params, 1, TcState(<< <<>> >>, "none"),
                           ProgramSymbols(f)).scopes,
              ProgramSymbols(f)).ty

\* C10: the checker accepts a function whose one return statement is
\* `return v` exactly when: in a unit function, the return has no value
\* (whatever the type of v, a call to a unit function included); in a
\* non-unit function, it has one and its type is assignable to the declared
\* return type.
C10_ReturnTyping ==
    phase \in {"checked", "rejected"} =>
      LET v == ReturnValueOf(fn.body)
          ret_ty == resolve_type(fn.ret, ProgramSymbols(fn))
      IN  (checked = "none") <=>
             IF ret_ty = TyUnit THEN v.k = "None"
             ELSE v.k # "None" /\ is_assignable(ret_ty, TypeInParams(fn, v))

(***************************************************************************)
(* Properties of the typing of operators.                                  *)
(***************************************************************************)
\* The result of _check_expr on an operand of the expression statement
OperandType(e) == CheckExpr(e, BodyScopes(fn), ProgramSymbols(fn))

\* The check of `subject;` has run and both operands of the binary operator
\* subject have a type
BinaryTyped(ops) ==
    /\ phase \in {"checked", "rejected"}
    /\ subject.k = "Binary"
    /\ subject.op \in ops
    /\ OperandType(subject.left).err = "none"
    /\ OperandType(subject.right).err = "none"

\* C11: two operands of `==` or `!=` of identical type are assignable to
\* each other and the comparison is accepted with type bool, two integer
\* literals of the same value included; and a comparison is accepted exactly
\* when one operand's type is assignable to the other's.
C11_EqualityIdenticalTypes ==
    BinaryTyped(EqualityOps) =>
      LET l == OperandType(subject.left).ty
          r == OperandType(subject.right).ty
      IN  /\ l = r => is_assignable(l, r) /\ checked = "none" /\ typed = Typed(TyBool)
          /\ checked = "none" <=> (is_assignable(l, r) \/ is_assignable(r, l))

(***************************************************************************)
(* Properties of the check of a value against a declared type.             *)
(***************************************************************************)
\* The position subject stands at in f, "operator" in f(x, ...) { e; }
PositionOf(f) ==
    IF f.params[1].name # "w" THEN "operator"
    ELSE LET st == f.body[1]
         IN  CASE st.k = "VarDecl" -> "init"
               [] st.k = "Return" -> "return"
               [] st.k = "If" -> "if"
               [] st.k = "While" -> "while"
               [] st.expr.k = "Assign" -> "assign"
               [] OTHER -> "argument"

\* The check of a value at one of the four positions has run, and the
\* declared type it is checked against
ValueChecked ==
    phase \in {"checked", "rejected"} /\ PositionOf(fn) \in ValuePositions

DeclaredType == resolve_type(fn.params[1].type_ast, ProgramSymbols(fn))

\* v lies in the range of the integer type ty; no value does for another type
InRangeOf(v, ty) ==
    CASE ty = TyI64 -> /\ IntLE(IntNeg(IntPow2(63)), v)
                       /\ ~IntLE(IntPow2(63), v)
      [] ty = TyU64 -> ~v.neg /\ ~IntLE(IntPow2(64), v)
      [] ty = TyU8 -> ~v.neg /\ ~IntLE(IntOf(256), v)
      [] OTHER -> FALSE

\* C12: as var initialiser, assigned value, call argument and return value,
\* an integer literal expression that folds to v is accepted for the
\* declared type exactly when that is i64 and -2^63 <= v < 2^63, u64 and
\* 0 <= v < 2^64, or u8 and 0 <= v < 256; never for bool, unit, a pointer
\* or a struct.
C12_LiteralFit ==
    (ValueChecked /\ typed.err = "none" /\ typed.ty.t = "int literal") =>
        (checked = "none" <=> InRangeOf(typed.ty.value, DeclaredType))

\* A call argument that folds to 2^64 - 1 was accepted for u64
C12_Witness ==
    /\ phase = "checked"
    /\ PositionOf(fn) = "argument"
    /\ DeclaredType = TyU64
    /\ subject = Binary("-", IntLit(IntPow2(64)), IntLit(IntOf(1)))
    /\ typed = Typed(TyIntLit(IntSub(IntPow2(64), IntOf(1))))

\* The check of the operator subject has run, one operand being null;
\* other is the other operand (null itself when both are)
NullOperand ==
    /\ phase \in {"checked", "rejected"}
    /\ PositionOf(fn) = "operator"
    /\ \/ subject.k = "Unary" /\ subject.expr = NullLit
       \/ subject.k = "Binary" /\ NullLit \in {subject.left, subject.right}

OtherOperand ==
    IF subject.left = NullLit THEN subject.right ELSE subject.left

\* Where null stands as a value or a condition, it is accepted exactly for
\* a declared pointer type; as an operand of an operator other than == and
\* != it is rejected
NullElsewhere ==
    /\ (ValueChecked /\ subject = NullLit) =>
          (checked = "none" <=> DeclaredType.t = "ptr")
    /\ (phase \in {"checked", "rejected"} /\ PositionOf(fn) \in CondPositions
          /\ subject = NullLit) => checked # "none"
    /\ (NullOperand /\ (subject.k = "Unary" \/ subject.op \notin EqualityOps)) =>
          checked # "none"

\* C13 as stated: null is accepted as var initialiser, assigned value, call
\* argument and return value exactly when the declared type is a pointer;
\* it is rejected as an operand of the arithmetic, relational and logical
\* operators and as the condition of an if or a while; and an equality with
\* null is accepted exactly when the other operand is of pointer type.
C13_NullAssignability ==
    /\ NullElsewhere
    /\ (NullOperand /\ subject.k = "Binary" /\ subject.op \in EqualityOps) =>
          (checked = "none" <=>
              /\ OperandType(OtherOperand).err = "none"
              /\ OperandType(OtherOperand).ty.t = "ptr")

\* C13 as amended: the same, but an equality with null is accepted exactly
\* when the other operand is of pointer type or is null itself.
C13_NullAssignabilityAmended ==
    /\ NullElsewhere
    /\ (NullOperand /\ subject.k = "Binary" /\ subject.op \in EqualityOps) =>
          (checked = "none" <=>
              /\ OperandType(OtherOperand).err = "none"
              /\ OperandType(OtherOperand).ty.t \in {"ptr", "null"})

\* `null == null;` was accepted
C13_Witness ==
    /\ phase = "checked"
    /\ subject = Binary("==", NullLit, NullLit)
    /\ typed = Typed(TyBool)

(***************************************************************************)
(* Lowering of the functions the type checker accepted.                    *)
(***************************************************************************)
\* The default value the spec gives a type: 0, false or null
DefaultOf(ty) ==
    CASE ty.t = "ptr" -> NullLit
      [] ty.t = "bool" -> BoolLit(FALSE)
      [] OTHER -> IntLit(IntOf(0))

\* C14: a function the checker accepted is lowered without error when its
\* return type is i64, u64, u8, bool or a pointer, and its lowered body
\* begins with the declaration of __ret_f of that type initialised to 0,
\* false or null; with a struct return type lowering fails; and the lowered
\* body of a unit function declares no __ret_f.
C14_RetVarDefault ==
    phase = "lowered" =>
      LET ty == resolve_type(fn.ret, ProgramSymbols(fn))
      IN  CASE ty = TyUnit ->
                 lowered.err = "none" =>
                   \A i \in 1..Len(Flatten(lowered.fn.body)) :
                      LET st == Flatten(lowered.fn.body)[i]
                      IN  st.k = "VarDecl" => st.name # RetVarName(fn.name)
            [] ty.t = "struct" -> lowered.err # "none"
            [] OTHER ->
                 /\ lowered.err = "none"
                 /\ lowered.fn.body[1]
                      = VarDecl(RetVarName(fn.name), fn.ret, DefaultOf(ty))

(***************************************************************************)
(* Folding of integer literal arithmetic.                                  *)
(***************************************************************************)
\* The check of the arithmetic subject has run, both operands being
\* integer literals (negated or not), and their values
LiteralArithmetic ==
    /\ BinaryTyped(ArithmeticOps)
    /\ OperandType(subject.left).ty.t = "int literal"
    /\ OperandType(subject.right).ty.t = "int literal"

LeftValue == OperandType(subject.left).ty.value

RightValue == OperandType(subject.right).ty.value

\* v as a number of the model, for a v of one digit
Number(v) == IF v.mag = <<>> THEN 0 ELSE IF v.neg THEN 0 - v.mag[1] ELSE v.mag[1]

\* The int of the number n of the model
IntOfNumber(n) == IF n < 0 THEN IntNeg(IntOf(0 - n)) ELSE IntOf(n)

\* The quotient of v1 by v2 # 0 truncated toward zero, by long division of
\* the magnitudes
TruncatedQuotient(v1, v2) == PyInt(v1.neg # v2.neg, MagDivMod(v1.mag, v2.mag).q)

\* C15: folding v1 op v2 of two integer literals gives, for `/` with
\* v2 # 0, the exact quotient truncated toward zero, negative operands
\* included; for + - * the exact result; for `/` and `%` with v2 = 0 the
\* literal 0 and no error; and -v for the unary minus of the literal v.
C15_ExactFold ==
    /\ LiteralArithmetic =>
          LET v1 == LeftValue
              v2 == RightValue
              small == Len(v1.mag) <= 1 /\ Len(v2.mag) <= 1
          IN  /\ typed.err = "none"
              /\ typed.ty.t = "int literal"
              /\ CASE subject.op = "+" ->
                         /\ typed.ty.value = IntAdd(v1, v2)
                         /\ small => typed.ty.value = IntOfNumber(Number(v1) + Number(v2))
                    [] subject.op = "-" ->
                         /\ typed.ty.value = IntSub(v1, v2)
                         /\ small => typed.ty.value = IntOfNumber(Number(v1) - Number(v2))
                    [] subject.op = "*" ->
                         /\ typed.ty.value = IntMul(v1, v2)
                         /\ small => typed.ty.value = IntOfNumber(Number(v1) * Number(v2))
                    [] subject.op = "/" ->
                         typed.ty.value
                           = IF IntIsZero(v2) THEN IntOf(0) ELSE TruncatedQuotient(v1, v2)
                    [] subject.op = "%" -> IntIsZero(v2) => typed.ty.value = IntOf(0)
    /\ ( /\ phase \in {"checked", "rejected"}
         /\ subject.k = "Unary" /\ subject.op = "-" /\ subject.expr.k = "IntLit" )
         => typed = Typed(TyIntLit(IntNeg(subject.expr.value)))

(***************************************************************************)
(* Typing of the arithmetic operators.                                     *)
(***************************************************************************)
ConcreteInt(ty) == ty \in {TyI64, TyU64, TyU8}

\* C16: for + - * / %, two literal operands give a folded integer literal;
\* a literal and a concrete integer operand, in either order, give the
\* concrete operand's type; two concrete integer operands are accepted
\* exactly when their types are the same, and give that type; and an operand
\* that is a bool, unit, null, a pointer or a struct is a type error.
C16_ArithmeticTyping ==
    BinaryTyped(ArithmeticOps) =>
      LET l == OperandType(subject.left).ty
          r == OperandType(subject.right).ty
      IN  /\ PositionOf(fn) = "operator" => checked = typed.err
          /\ CASE l.t = "int literal" /\ r.t = "int literal" ->
                     typed.err = "none" /\ typed.ty.t = "int literal"
                [] l.t = "int literal" /\ ConcreteInt(r) -> typed = Typed(r)
                [] ConcreteInt(l) /\ r.t = "int literal" -> typed = Typed(l)
                [] ConcreteInt(l) /\ ConcreteInt(r) ->
                     /\ typed.err = "none" <=> l = r
                     /\ l = r => typed = Typed(l)
                [] OTHER ->
                     /\ l.t \in {"bool", "unit", "null", "ptr", "struct"}
                          \/ r.t \in {"bool", "unit", "null", "ptr", "struct"}
                     /\ typed = TypeCheckError(
                           "Arithmetic operators require matching integer types")
                     /\ phase = "rejected"

\* `1 % z;` was accepted with the type u8 of z
C16_Witness ==
    /\ phase = "checked"
    /\ subject = Binary("%", IntLit(IntOf(1)), Var("z"))
    /\ typed = Typed(TyU8)

(***************************************************************************)
(* Scoping of locals in the type checker.                                  *)
(***************************************************************************)
RECURSIVE ItemsIn(_, _)
\* Every statement of a block at any depth, with the block it stands in and
\* its index there; the block of statement i of block blk is blk \o <<i, 1>>,
\* the else block of an if blk \o <<i, 2>>
ItemsIn(stmts, blk) ==
    UNION { {[blk |-> blk, idx |-> i, st |-> stmts[i]]} \cup
            ( CASE stmts[i].k = "Block" -> ItemsIn(stmts[i].stmts, blk \o <<i, 1>>)
                [] stmts[i].k = "While" -> ItemsIn(stmts[i].body, blk \o <<i, 1>>)
                [] stmts[i].k = "If" ->
                     ItemsIn(stmts[i].then_block, blk \o <<i, 1>>)
                       \cup ItemsIn(stmts[i].else_block, blk \o <<i, 2>>)
                [] OTHER -> {} ) : i \in 1..Len(stmts) }

\* The body of f is block <<1, 1>>, enclosed by the block <<>> of the
\* parameters, which stand at index 0
BodyItems(f) == ItemsIn(f.body, <<1, 1>>)

\* The lexical declarations of f: its parameters and its var statements
Declarations(f) ==
    {[blk |-> <<>>, idx |-> 0, name |-> f.params[i].name,
      type_ast |-> f.params[i].type_ast] : i \in 1..Len(f.params)}
      \cup {[blk |-> it.blk, idx |-> it.idx, name |-> it.st.name,
              type_ast |-> it.st.type_ast] :
                it \in {i \in BodyItems(f) : i.st.k = "VarDecl"}}

\* The declaration d is in scope at index idx of block blk: it stands
\* earlier in that block, or in an enclosing block before the statement
\* that holds blk
InScope(d, blk, idx) ==
    IF d.blk = blk THEN d.idx < idx
    ELSE /\ Len(d.blk) < Len(blk)
         /\ SubSeq(blk, 1, Len(d.blk)) = d.blk
         /\ d.idx < blk[Len(d.blk) + 1]

\* The declarations the name n refers to at index idx of block blk: those in
\* scope in the innermost block that has one
BindingsOf(f, n, blk, idx) ==
    LET ds == {d \in Declarations(f) : d.name = n /\ InScope(d, blk, idx)}
    IN  {d \in ds : \A e \in ds : Len(e.blk) <= Len(d.blk)}

\* Two declarations of one name in one block
HasDuplicate(f) ==
    \E d, e \in Declarations(f) : d # e /\ d.name = e.name /\ d.blk = e.blk

\* Every assignment `n = value;` of f refers to a declaration of the type of
\* the value
UsesResolve(f) ==
    \A it \in {i \in BodyItems(f) : i.st.k = "ExprStmt"} :
       \E d \in BindingsOf(f, it.st.expr.target.name, it.blk, it.idx) :
          ValueOf(d.type_ast) = it.st.expr.value

\* The TypeEnv after the first k statements of the body of f
EnvAfter(f, k) ==
    CheckStmts(SubSeq(f.body, 1, k), 1, TcState(BodyScopes(f), "none"),
               ProgramSymbols(f), TyUnit).scopes

\* C17: a declaration of a name that its own scope already has is an error;
\* one of a name that only an enclosing scope has is accepted and shadows
\* it; after the nested block the name refers to the outer declaration
\* again and a name declared only in the nested block is unknown; and the
\* scope stack is as deep after a block as before it.
C17_Scoping ==
    phase \in {"checked", "rejected"} =>
      /\ checked = "none" <=> (~HasDuplicate(fn) /\ UsesResolve(fn))
      /\ checked = "Duplicate local symbol" => HasDuplicate(fn)
      /\ (HasDuplicate(fn) /\ UsesResolve(fn)) => checked = "Duplicate local symbol"
      /\ checked = "none" =>
            /\ tcenv = << [n \in {"x"} |-> TyI64] >>
            /\ \A k \in 0..Len(fn.body) : Len(EnvAfter(fn, k)) = 2

\* `var v: i64 = 1; { var v: bool = true; v = true; } v = 1;` was accepted
C17_Witness ==
    /\ phase = "checked"
    /\ fn.body = << Declare("v", AstI64),
                    Block(<<Declare("v", AstBool), Use("v", AstBool)>>),
                    Use("v", AstI64) >>
    /\ Len(tcenv) = 1

(***************************************************************************)
(* Stack frame properties.                                                 *)
(***************************************************************************)
Emitted == phase = "emitted"

\* The emitted `sub rsp, N` lines
SubRsp == {i \in 1..Len(asm.lines) : asm.lines[i].op = "subi" /\ asm.lines[i].a = "rsp"}

IsVarDecl(st) == st.k = "VarDecl"

\* The declarations of f in textual order: the parameters, then every var
\* statement at any depth
DeclSeq(f) ==
    LET locals == SelectSeq(Flatten(f.body), IsVarDecl)
    IN  [i \in 1..(Len(f.params) + Len(locals)) |->
           IF i <= Len(f.params)
           THEN [name |-> f.params[i].name, type_ast |-> f.params[i].type_ast]
           ELSE [name |-> locals[i - Len(f.params)].name,
                 type_ast |-> locals[i - Len(f.params)].type_ast]]

SizeOf(d) == type_size_align(d.type_ast, symres.layouts).size

AlignOf(d) == type_size_align(d.type_ast, symres.layouts).align

\* Some parameter or local of f takes room
StackNeeded(f) == \E i \in 1..Len(DeclSeq(f)) : SizeOf(DeclSeq(f)[i]) > 0

\* C18 (P5): every emitted `sub rsp, N` has N > 0 and N a multiple of 16,
\* whatever the sizes of the parameters and locals (0, 1, 4, 8 bytes, and
\* structs); and no `sub rsp` is emitted when no parameter or local takes
\* room.
C18_FrameAligned ==
    Emitted =>
      /\ \A i \in SubRsp : asm.lines[i].n > 0 /\ asm.lines[i].n % 16 = 0
      /\ ~StackNeeded(lowered.fn) => SubRsp = {}

\* fn f(a: bool) -> unit { { var v1: i32 = 1; } var v2: unit = p(1); } was
\* emitted with `sub rsp, 16` for its 8 bytes
C18_Witness ==
    /\ Emitted
    /\ fn = FrameFn(<<AstBool>>, AstI32, AstUnit, "block")
    /\ asm.lines[4] = Ins("subi", "rsp", "", 16, 8)

IsSlotStore(line) == line.tag \in {"param", "local"}

\* The stores emitted where a slot was allocated, in the order of emission
SlotStores == SelectSeq(asm.lines, IsSlotStore)

RECURSIVE SlotOffsets(_, _, _)
\* The offsets of the slots of the declarations ds from the i-th on, each at
\* the least multiple of its alignment that leaves room for it below the
\* slots before it, which end at off
SlotOffsets(ds, i, off) ==
    IF i > Len(ds) THEN <<>>
    ELSE LET o == LeastMultipleGE(AlignOf(ds[i]), off + SizeOf(ds[i]))
         IN  <<o>> \o SlotOffsets(ds, i + 1, o)

\* The frame size reserved in the prologue
Reserved == IF SubRsp = {} THEN 0 ELSE asm.lines[CHOOSE i \in SubRsp : TRUE].n

\* C20: emission allocates the slots frame sizing counted, in the same
\* order: the parameters, then every VarDecl of the lowered body in textual
\* order, nested ones and defer temporaries included; every offset assigned
\* is at most the frame size reserved in the prologue, and the byte ranges
\* [rbp - offset, rbp - offset + size) of two declarations never overlap,
\* also when the scope of the first was popped before the second.
C20_FrameCoversSlots ==
    Emitted =>
      LET ds == DeclSeq(lowered.fn)
          st == SlotStores
          off == SlotOffsets(ds, 1, 0)
      IN  /\ asm.err = "none" => Len(st) = Len(ds)
          /\ Len(st) <= Len(ds)
          /\ Reserved = LeastMultipleGE(16, IF ds = <<>> THEN 0 ELSE off[Len(ds)])
          /\ \A i \in 1..Len(st) :
                /\ st[i].src = Var(ds[i].name)
                /\ st[i].a = "rbp"
                /\ 0 - st[i].n = off[i]
                /\ 0 - st[i].n <= Reserved
          /\ \A i, j \in 1..Len(st) :
                i < j => \/ st[i].n + SizeOf(ds[i]) <= st[j].n
                         \/ st[j].n + SizeOf(ds[j]) <= st[i].n

\* A function with a bool and a struct parameter, an i32 local and a defer
\* in a while and a struct local after it was emitted: five slots, the
\* defer's temporary among them
C20_Witness ==
    /\ Emitted
    /\ fn = FrameFn(<<AstBool, NamedType("S")>>, AstI32, NamedType("S"), "while")
    /\ decls = <<StructDecl("S", MkFields(<<AstI32, AstI64>>))>>
    /\ Len(SlotStores) = 5
    /\ \E i \in 1..Len(SlotStores) : SlotStores[i].src \notin {Var(n) : n \in {"a", "b", "v1", "v2"}}

(***************************************************************************)
(* Error kinds.                                                            *)
(***************************************************************************)
ErrorKinds == {"LexError", "ParseError", "SymbolError", "TypeCheckError", "CodegenError"}

LexFailed == phase = "lex failed"

Rejected == phase = "rejected"

LowerFailed == phase = "lowered" /\ lowered.err # "none"

\* C19: a failure of the lexer (an unexpected character, an unterminated
\* block comment) is a LexError, every rejection by the type checker, an
\* unknown type name included, is a TypeCheckError, and no stage, lowering
\* included, fails with an exception outside the five kinds LexError,
\* ParseError, SymbolError, TypeCheckError, CodegenError.
C19_ErrorKinds ==
    /\ LexFailed => tokens.exc = "LexError"
    /\ Rejected => ExceptionOfCheck(checked) = "TypeCheckError"
    /\ LowerFailed => ExceptionOfLower(lowered.err) \in ErrorKinds

(***************************************************************************)
(* main.py on whole programs, every stage after the parser: a program that *)
(* declares the structs S { a: bool, b: i64 } and T { s: S }, the extern    *)
(* functions, and one function                                            *)
(*   fn f(x: i64, ...) -> R { ... }                                        *)
(* The symbols are built; typecheck_program, lower_program and Codegen     *)
(* follow, and then the caller calls f.                                    *)
(***************************************************************************)
CodeDecls ==
    << StructDecl("S", <<StructField("a", AstBool), StructField("b", AstI64)>>),
       StructDecl("T", <<StructField("s", NamedType("S"))>>) >>

CodeFn(params, R, body) == FnDecl("f", <<Param("x", AstI64)>> \o params, R, body)

Lit(v) == IntLit(IntOf(v))

\* Programs that store: initialisers and assignments of every size
StoreFns ==
    { CodeFn(<<>>, AstI64,
             <<VarDecl("v", AstI64, Lit(5)),
               VarDecl("u", AstUnit, Call("p", <<Var("x")>>)), Return(Var("v"))>>),
      CodeFn(<<Param("s", NamedType("S"))>>, AstUnit,
             <<VarDecl("s2", NamedType("S"), Var("s"))>>),
      CodeFn(<<Param("s", NamedType("S"))>>, AstUnit,
             <<VarDecl("s2", NamedType("S"), Var("s")),
               ExprStmt(Assign(Var("s2"), Var("s")))>>),
      CodeFn(<<>>, AstBool,
             <<VarDecl("b", AstBool, BoolLit(TRUE)),
               ExprStmt(Assign(Var("b"), BoolLit(FALSE))), Return(Var("b"))>>),
      CodeFn(<<>>, AstI64,
             <<VarDecl("v", AstI64, Lit(5)),
               ExprStmt(Assign(Var("x"), Var("v"))), Return(Var("x"))>>),
      CodeFn(<<Param("s", NamedType("S"))>>, AstBool,
             <<ExprStmt(Assign(Field(Var("s"), "a"), BoolLit(TRUE))),
               ExprStmt(Assign(Field(Var("s"), "b"), Lit(5))),
               Return(Field(Var("s"), "a"))>>),
      CodeFn(<<>>, AstI64,
             <<VarDecl("q", PtrType(AstI64), Unary("&", Var("x"))),
               ExprStmt(Assign(Unary("*", Var("q")), Lit(5))), Return(Var("x"))>>) }

\* Programs that read a one-byte value: a variable, a field, through a
\* pointer
ReadFns ==
    { CodeFn(<<>>, AstBool,
             <<VarDecl("b", AstBool, BoolLit(TRUE)), Return(Var("b"))>>),
      CodeFn(<<Param("s", NamedType("S"))>>, AstBool,
             <<ExprStmt(Assign(Field(Var("s"), "a"), BoolLit(TRUE))),
               Return(Field(Var("s"), "a"))>>),
      CodeFn(<<>>, AstBool,
             <<VarDecl("b", AstBool, BoolLit(TRUE)),
               VarDecl("q", PtrType(AstBool), Unary("&", Var("b"))),
               Return(Unary("*", Var("q")))>>),
      CodeFn(<<>>, AstBool,
             <<VarDecl("b", AstBool, BoolLit(TRUE)),
               VarDecl("q", PtrType(AstBool), Unary("&", Var("b"))),
               Return(Binary("==", Unary("*", Var("q")), BoolLit(TRUE)))>>),
      CodeFn(<<>>, AstI64,
             <<VarDecl("q", PtrType(AstI64), Unary("&", Var("x"))),
               Return(Unary("*", Var("q")))>>) }

\* Programs that call: g on two arguments of every kind, as a statement
\* and as the value returned; h on six arguments, k on seven; and f with
\* seven parameters
FirstArgs == {Lit(3), Var("x"), Call("n", <<>>), Binary("+", Var("x"), Lit(1))}

SecondArgs == {Lit(4), Var("x"), Call("m", <<>>), Call("g", <<Lit(1), Lit(2)>>)}

Lits(count) == [i \in 1..count |-> Lit(i)]

CallFns ==
    { CodeFn(<<>>, AstUnit, <<ExprStmt(Call("g", <<a1, a2>>))>>) :
        a1 \in FirstArgs, a2 \in SecondArgs }
    \cup { CodeFn(<<>>, AstI64, <<Return(Call("g", <<a1, a2>>))>>) :
             a1 \in FirstArgs, a2 \in SecondArgs }
    \cup { CodeFn(<<>>, AstUnit, <<ExprStmt(Call("h", Lits(5) \o <<Var("x")>>))>>),
           CodeFn(<<>>, AstUnit, <<ExprStmt(Call("k", Lits(7)))>>),
           CodeFn(IntParams(5), AstUnit, <<ExprStmt(Call("p", <<Var("e")>>))>>),
           CodeFn(IntParams(6), AstUnit, <<ExprStmt(Call("p", <<Var("x")>>))>>) }

\* Programs with && and ||, their operands calls
T1 == Call("t1", <<>>)

T2 == Call("t2", <<>>)

T3 == Call("t3", <<>>)

ShortCircuits ==
    { Binary("&&", T1, T2), Binary("||", T1, T2),
      Binary("||", Binary("&&", T1, T2), T3),
      Binary("&&", T1, Binary("||", T2, T3)),
      Binary("&&", Binary("||", T1, T2), T3),
      Binary("||", T1, Binary("&&", T2, T3)),
      Binary("&&", T1, Binary("&&", T2, T3)),
      Binary("||", Binary("||", T1, T2), T3) }

ShortFns ==
    { CodeFn(<<>>, AstBool, <<Return(e)>>) : e \in ShortCircuits }
    \cup { CodeFn(<<>>, AstUnit,
                  <<If(e, <<ExprStmt(Call("p", <<Var("x")>>))>>, FALSE, <<>>)>>) :
             e \in ShortCircuits }
    \cup { CodeFn(<<>>, AstBool,
                  <<ExprStmt(Binary("&&", T1, T2)),
                    Return(Binary("||", T3, Call("c", <<>>)))>>) }

\* Programs with defers in nested blocks, and jumps out of them
Deferred == DeferCall(Call("p", <<Var("x")>>))

DeferFns ==
    { CodeFn(<<>>, AstUnit,
             <<Deferred, Block(<<Deferred, Block(<<Deferred>>), Deferred>>)>>),
      CodeFn(<<>>, AstUnit,
             <<If(T1, <<Deferred>>, TRUE, <<Block(<<Deferred>>), Deferred>>),
               Deferred>>),
      CodeFn(<<>>, AstUnit,
             <<While(Cond, <<Deferred, Block(<<Deferred>>)>>)>>),
      CodeFn(<<>>, AstUnit,
             <<Deferred, Block(<<Deferred, Block(<<Deferred, Goto("l")>>)>>),
               LabeledBlock("l", <<Deferred>>)>>),
      CodeFn(<<>>, AstI64,
             <<Deferred, Block(<<Deferred, Return(Lit(1))>>), Return(Lit(2))>>) }

\* Programs that call where the stack holds a pushed operand
AlignFns ==
    { CodeFn(<<>>, AstUnit, <<ExprStmt(Binary("+", Var("x"), Call("n", <<>>)))>>),
      CodeFn(<<>>, AstI64, <<Return(Binary("+", Var("x"), Call("n", <<>>)))>>),
      CodeFn(<<>>, AstI64, <<Return(Call("n", <<>>))>>),
      CodeFn(<<>>, AstUnit, <<ExprStmt(Call("p", <<Var("x")>>))>>) }

\* Programs that return a value past defers
ReturnFns ==
    { CodeFn(<<>>, AstI64, <<Deferred, Return(Call("n", <<>>))>>),
      CodeFn(<<>>, AstI64,
             <<Deferred, Block(<<Deferred, Return(Call("n", <<>>))>>),
               Return(Lit(2))>>),
      CodeFn(<<>>, AstI64,
             <<If(T1, <<Deferred, Return(Call("n", <<>>))>>, FALSE, <<>>),
               Return(Call("m", <<>>))>>),
      CodeFn(<<>>, AstI64, <<Return(Call("n", <<>>))>>) }

\* Programs whose initialiser names a variable of the name declared
ShadowFns ==
    { CodeFn(<<>>, AstUnit,
             <<Block(<<VarDecl("x", AstI64, Var("x")),
                       ExprStmt(Call("p", <<Var("x")>>))>>)>>),
      CodeFn(<<>>, AstUnit,
             <<Block(<<VarDecl("x", AstI64, Binary("+", Var("x"), Lit(1))),
                       ExprStmt(Call("p", <<Var("x")>>))>>)>>),
      CodeFn(<<>>, AstUnit,
             <<Block(<<VarDecl("y", AstI64, Var("x")),
                       ExprStmt(Call("p", <<Var("y")>>))>>)>>) }

\* Programs that return a quotient or a remainder of two literals, of every
\* sign
MaxOperand == 7

Signed(v, neg) == IF neg THEN Unary("-", Lit(v)) ELSE Lit(v)

Quotients ==
    { Binary(op, Signed(a, na), Signed(b, nb)) :
        op \in {"/", "%"}, a \in {MaxOperand - 1, MaxOperand}, b \in {2, 3},
        na \in BOOLEAN, nb \in BOOLEAN }

FoldFns == { CodeFn(<<>>, AstI64, <<Return(e)>>) : e \in Quotients }

\* Programs that assign to, or take the address of, a target of every kind
AddrParams ==
    << Param("s", NamedType("S")), Param("t", NamedType("T")),
       Param("q", PtrType(AstI64)), Param("ps", PtrType(NamedType("S"))) >>

\* The targets, each with a value of its type
Targets ==
    { <<Var("x"), Lit(1)>>,
      <<Field(Var("s"), "a"), BoolLit(TRUE)>>,
      <<Field(Var("s"), "b"), Lit(1)>>,
      <<Field(Field(Var("t"), "s"), "b"), Lit(1)>>,
      <<Unary("*", Var("q")), Lit(1)>>,
      <<Unary("*", Call("r", <<>>)), Lit(1)>>,
      <<Unary("*", Unary("&", Var("x"))), Lit(1)>>,
      <<Index(Var("q"), Lit(0)), Lit(1)>>,
      <<Field(Unary("*", Var("ps")), "b"), Lit(1)>> }

AddrFns ==
    { CodeFn(AddrParams, AstUnit, <<ExprStmt(Assign(tv[1], tv[2]))>>) :
        tv \in Targets }
    \cup { CodeFn(AddrParams, AstUnit,
                  <<ExprStmt(Call("p", <<Unary("*", Unary("&", tv[1]))>>))>>) :
             tv \in {t \in Targets : t[2] = Lit(1)} }

CodeFns ==
    StoreFns \cup ReadFns \cup CallFns \cup ShortFns \cup DeferFns
        \cup AlignFns \cup ReturnFns \cup ShadowFns \cup FoldFns \cup AddrFns

InitCode ==
    /\ phase = "parsed"
    /\ decls = CodeDecls
    /\ symres = BuildGlobalSymbolsResult(CodeDecls)
    /\ \E f \in CodeFns :
          /\ fn = f
          /\ subject = IF f \in FoldFns THEN f.body[1].value ELSE NoExpr
    /\ lowered = NotLowered
    /\ relowered = NotLowered
    /\ IdleExec
    /\ checked = NotChecked
    /\ tcenv = NoEnv
    /\ typed = NotTyped
    /\ IdleLex

NextCode == Typecheck \/ Lower \/ Emit \/ Enter \/ Step

SpecCode == InitCode /\ [][NextCode]_vars

(***************************************************************************)
(* Stores and loads of the emitted code.                                   *)
(***************************************************************************)
\* No two parameters or locals of f have the same name
UniqueNames(f) ==
    \A i, j \in 1..Len(DeclSeq(f)) :
        DeclSeq(f)[i].name = DeclSeq(f)[j].name => i = j

\* The declared type of the parameter or local of the name
DeclTypeOf(f, name) ==
    DeclSeq(f)[CHOOSE i \in 1..Len(DeclSeq(f)) : DeclSeq(f)[i].name = name].type_ast

RECURSIVE StaticType(_, _)
\* The type the language gives a variable, a field access, a dereference,
\* an address, an indexing or a call
StaticType(f, expr) ==
    CASE expr.k = "Var" -> DeclTypeOf(f, expr.name)
      [] expr.k = "Field" ->
           FieldOf(symres.layouts[StaticType(f, expr.base).name], expr.name).type_ast
      [] expr.k = "Unary" /\ expr.op = "*" -> StaticType(f, expr.expr).inner
      [] expr.k = "Unary" /\ expr.op = "&" -> PtrType(StaticType(f, expr.expr))
      [] expr.k = "Index" -> StaticType(f, expr.base).inner
      [] expr.k = "Call" -> ProgramFunctions(f)[expr.callee].ret

\* The size of the type
TypeBytes(type_ast) == type_size_align(type_ast, symres.layouts).size

\* The line the machine has just executed
LastLine == asm.lines[cpu.pc - 1]

\* The machine has just executed the store of an initialiser or of an
\* assignment
JustStored ==
    /\ phase = "running"
    /\ cpu.pc > 1
    /\ LastLine.op = "store"
    /\ LastLine.tag \in {"local", "assign"}
    /\ UniqueNames(lowered.fn)

\* C21: every store emitted for a variable initialiser or an assignment to a
\* target of type T writes exactly size(T) bytes, also for the zero-size
\* unit and for structs whose size is not 1, 4 or 8, so that no byte outside
\* the target's storage is modified.
C21_StoreWritesSize ==
    JustStored => LastLine.w = TypeBytes(StaticType(lowered.fn, LastLine.src))

\* fn f(x: i64, s: S) -> unit { var s2: S = s; s2 = s; } ran its assignment
\* to the 16-byte s2
C21_Witness ==
    /\ JustStored
    /\ LastLine.tag = "assign"
    /\ TypeBytes(StaticType(lowered.fn, LastLine.src)) = 16

\* The machine has just executed the load that reads a variable, a field or
\* through a pointer, and what is read has a type of one byte
JustReadByte ==
    /\ phase = "running"
    /\ cpu.pc > 1
    /\ LastLine.op = "load"
    /\ LastLine.tag = "read"
    /\ UniqueNames(lowered.fn)
    /\ TypeBytes(StaticType(lowered.fn, LastLine.src)) = 1

\* C22: a value of a one-byte type (bool, u8) that is read through a
\* variable, a field access or a dereference `*p` is read with a load of
\* exactly one byte, and rax holds that byte zero-extended.
C22_ByteRead ==
    JustReadByte => LastLine.w = 1 /\ cpu.regs["rax"] \in 0..255

(***************************************************************************)
(* Calls.                                                                  *)
(***************************************************************************)
\* The call a program of CallFns is about: its statement, or the value it
\* returns
TopCall == IF fn.body[1].k = "ExprStmt" THEN fn.body[1].expr ELSE fn.body[1].value

\* rsp after the prologue
FrameRsp == (4096 - 16) - Reserved

\* The offset from rbp of the slot of the parameter of the name
ParamSlot(name) ==
    asm.lines[CHOOSE i \in 1..Len(asm.lines) :
                 asm.lines[i].tag = "param" /\ asm.lines[i].src = Var(name)].n

\* The value of the parameter, which these programs never assign to
ParamValue(name) ==
    CHOOSE v \in MemLoad(cpu.mem, (4096 - 16) + ParamSlot(name), 8) : TRUE

\* The latest entry before the j-th of the log that the call e made
LastCallOf(e, j) ==
    CHOOSE k \in 1..(j - 1) :
        log[k].src = e /\ \A h \in (k + 1)..(j - 1) : log[h].src # e

RECURSIVE ValueBefore(_, _)
\* The value of the argument e of the call that made the j-th entry of the
\* log
ValueBefore(e, j) ==
    CASE e.k = "IntLit" -> IntValue(e.value)
      [] e.k = "Var" -> ParamValue(e.name)
      [] e.k = "Call" -> log[LastCallOf(e, j)].result
      [] e.k = "Binary" -> ValueBefore(e.left, j) + ValueBefore(e.right, j)

\* The values pushed and not yet popped when the evaluation of the call e
\* begins: the address of the return variable when the call is the value
\* returned, and the arguments before e when e is an argument
PushedBefore(e) ==
    (IF fn.body[1].k = "Return" THEN 1 ELSE 0)
    + (IF e = TopCall THEN 0
       ELSE (CHOOSE i \in 1..Len(TopCall.args) : TopCall.args[i] = e) - 1)

\* The calls among the arguments of e made entries in the order of the
\* arguments, before the j-th
ArgsInOrder(e, j) ==
    \A i \in 1..Len(e.args) :
        e.args[i].k = "Call" =>
          \E k \in 1..(j - 1) :
              /\ log[k].src = e.args[i]
              /\ \A h \in 1..(i - 1) :
                    e.args[h].k = "Call" =>
                      \E m \in 1..(k - 1) : log[m].src = e.args[h]

\* C23: for a call with n <= 6 arguments the arguments are evaluated left to
\* right, at the `call` instruction the value of the i-th argument is in the
\* i-th of rdi, rsi, rdx, rcx, r8, r9, and the stack is as deep as before
\* the call expression, also when arguments are calls or binary operations;
\* a call with more than 6 arguments and a function with more than 6
\* parameters are rejected with a CodegenError.
C23_CallConvention ==
    fn \in CallFns =>
      /\ phase = "emitted" =>
           /\ Len(fn.params) > 6 => asm.err = "More than 6 parameters not supported"
           /\ Len(TopCall.args) > 6 => asm.err = "More than 6 arguments not supported"
           /\ Len(fn.params) <= 6 /\ Len(TopCall.args) <= 6 => asm.err = "none"
      /\ \A j \in 1..Len(log) :
            /\ \A i \in 1..Len(log[j].src.args) :
                  log[j].args[i] = ValueBefore(log[j].src.args[i], j)
            /\ ArgsInOrder(log[j].src, j)
            /\ log[j].rsp = FrameRsp - 8 * PushedBefore(log[j].src)

\* g(n(), g(1, 2)) was called as a statement: n, the inner g and the outer g
\* were called in this order, the outer with the two results
C23_Witness ==
    /\ fn = CodeFn(<<>>, AstUnit,
                   <<ExprStmt(Call("g", <<Call("n", <<>>),
                                          Call("g", <<Lit(1), Lit(2)>>)>>))>>)
    /\ Len(log) = 3
    /\ log[3].args[1] = log[1].result
    /\ log[3].args[2] = log[2].result
    /\ log[1].result # log[2].result

(***************************************************************************)
(* Short-circuit operators.  The operands of the programs are calls, each  *)
(* function called at one place, so that the log tells which operands ran  *)
(* and what they returned.                                                 *)
(***************************************************************************)
\* The call e ran
Ran(e) == \E k \in 1..Len(log) : log[k].src = e

\* What the call e returned
ResultOf(e) == log[CHOOSE k \in 1..Len(log) : log[k].src = e].result

RECURSIVE Truth(_)
\* The value the language gives the expression: 1 or 0, and 2 when an
\* operand that had to run did not
Truth(e) ==
    CASE e.k = "Call" -> IF ~Ran(e) THEN 2 ELSE IF ResultOf(e) # 0 THEN 1 ELSE 0
      [] e.k = "Binary" /\ e.op = "&&" ->
           IF Truth(e.left) = 0 THEN 0 ELSE Truth(e.right)
      [] e.k = "Binary" /\ e.op = "||" ->
           IF Truth(e.left) = 1 THEN 1 ELSE Truth(e.right)

RECURSIVE FirstCall(_)
\* The operand that runs first when e runs
FirstCall(e) == IF e.k = "Call" THEN e ELSE FirstCall(e.left)

\* The machine has just passed the join label of a short-circuit expression
JustJoined ==
    /\ phase = "running"
    /\ cpu.pc > 1
    /\ LastLine.tag = "join"

\* The labels of the sinks and joins
ShortLabels == {i \in 1..Len(asm.lines) : asm.lines[i].tag \in {"sink", "join"}}

\* C24: for `a && b` the code of b runs exactly when a is nonzero, for
\* `a || b` exactly when a is zero; afterwards rax is 0 or 1 and equals the
\* conjunction or disjunction; and the sink and join labels of distinct
\* short-circuit expressions of a function are pairwise distinct.
C24_ShortCircuit ==
    fn \in ShortFns =>
      /\ \A i, j \in ShortLabels : asm.lines[i].a = asm.lines[j].a => i = j
      /\ JustJoined =>
           /\ cpu.regs["rax"] \in {0, 1}
           /\ cpu.regs["rax"] = Truth(LastLine.src)
           /\ Ran(FirstCall(LastLine.src.right))
                = (Truth(LastLine.src.left) = (IF LastLine.src.op = "&&" THEN 1 ELSE 0))

\* t1() || (t2() && t3()) was evaluated with t1 zero, t2 nonzero and t3 zero
C24_Witness ==
    /\ JustJoined
    /\ LastLine.src = Binary("||", T1, Binary("&&", T2, T3))
    /\ Ran(T3)
    /\ ResultOf(T2) = 1
    /\ cpu.regs["rax"] = 0

(***************************************************************************)
(* Defer scopes: the history of defer_stack while a function is emitted.   *)
(***************************************************************************)
\* Code was generated for the function
Generated == asm.err = "none" /\ asm.lines # <<>>

\* The steps of kind ev strictly between steps i and j of the history
StepsBetween(ev, i, j) ==
    { h \in (i + 1)..(j - 1) : asm.trace[h].ev = ev }

\* Step i is the block entry that the block exit at step j closes
Matches(i, j) ==
    /\ i < j
    /\ asm.trace[i].ev = "enter"
    /\ Cardinality(StepsBetween("enter", i, j))
           = Cardinality(StepsBetween("exit", i, j))
    /\ \A h \in (i + 1)..(j - 1) :
           asm.trace[h].ev = "enter" =>
               Cardinality(StepsBetween("enter", h, j))
                   # Cardinality(StepsBetween("exit", h, j))

\* The stack after is the stack before with one call more on its last list
AppendsToInnermost(before, after) ==
    /\ before # <<>>
    /\ Len(after) = Len(before)
    /\ \A d \in 1..(Len(before) - 1) : after[d] = before[d]
    /\ Len(after[Len(after)]) = Len(before[Len(before)]) + 1
    /\ SubSeq(after[Len(after)], 1, Len(before[Len(before)]))
           = before[Len(before)]

\* C25: while a function is emitted the defer scope stack mirrors the block
\* nesting: it is as deep as the stack of local scopes, only block entries,
\* block exits and defer statements change it, an entry pushes one empty
\* list, the exit that closes the block pops exactly that list and leaves
\* the stack of before the entry, a defer appends its call to the innermost
\* list only, a goto leaves the stack and its lists as they were, and the
\* stack is empty when the function has been emitted.
C25_DeferStackMirrorsBlocks ==
    Generated =>
        /\ asm.defer_stack = <<>>
        /\ asm.scopes = <<>>
        /\ asm.trace # <<>>
        /\ asm.trace[1].before = <<>>
        /\ asm.trace[Len(asm.trace)].after = <<>>
        /\ \A j \in 1..Len(asm.trace) :
               /\ Len(asm.trace[j].before) = asm.trace[j].scopes_before
               /\ Len(asm.trace[j].after) = asm.trace[j].scopes
               /\ j > 1 => asm.trace[j].before = asm.trace[j - 1].after
               /\ asm.trace[j].ev = "enter" =>
                      asm.trace[j].after = Append(asm.trace[j].before, <<>>)
               /\ asm.trace[j].ev = "exit" =>
                      /\ Len(asm.trace[j].before) = Len(asm.trace[j].after) + 1
                      /\ \E i \in 1..(j - 1) :
                             /\ Matches(i, j)
                             /\ asm.trace[j].after = asm.trace[i].before
                             /\ SubSeq(asm.trace[j].before, 1,
                                       Len(asm.trace[i].before))
                                    = asm.trace[i].before
               /\ asm.trace[j].ev = "defer" =>
                      AppendsToInnermost(asm.trace[j].before, asm.trace[j].after)
               /\ asm.trace[j].ev = "goto" =>
                      asm.trace[j].after = asm.trace[j].before

\* A function was emitted whose goto sits three blocks deep, with calls
\* registered in the innermost and in an enclosing block, and whose blocks
\* were all left again
C25_Witness ==
    /\ Generated
    /\ asm.defer_stack = <<>>
    /\ \E j \in 1..Len(asm.trace) :
           /\ asm.trace[j].ev = "goto"
           /\ Len(asm.trace[j].before) = 4
           /\ asm.trace[j].before[2] # <<>>
           /\ asm.trace[j].before[4] # <<>>
    /\ \E j \in 1..Len(asm.trace) :
           /\ asm.trace[j].ev = "exit"
           /\ asm.trace[j].before[Len(asm.trace[j].before)] # <<>>

(***************************************************************************)
(* Stack alignment at calls.  The caller's call found rsp on a multiple of *)
(* 16 (EntryCpu), so the function starts 8 past one.                       *)
(***************************************************************************)
\* C26: at every call instruction the function executes, rsp is a multiple
\* of 16 (an even number of operands is pushed), whether the call is a
\* statement, an operand, the value of an assignment, an argument or a
\* deferred call.
C26_CallsAligned ==
    \A i \in 1..Len(log) : log[i].ev = "call" => log[i].rsp % 16 = 0

(***************************************************************************)
(* Returning a value past deferred calls.                                  *)
(***************************************************************************)
\* The function returns a value, so lowering gave it a return variable
HasRetVar == ~IsUnitType(fn.ret)

\* The address of the slot of the return variable (rbp is 4096 - 16 while
\* the function runs)
RetSlot ==
    (4096 - 16)
        + asm.lines[CHOOSE i \in 1..Len(asm.lines) :
                        /\ asm.lines[i].tag = "local"
                        /\ asm.lines[i].src = Var(RetVarName(fn.name))].n

\* The deferred calls that ran
DeferredCallsRan == { k \in 1..Len(log) : log[k].ev = "call" /\ log[k].tag = "defer" }

\* The calls that ran for the value of a return statement of ReturnFns
ValueRuns == { k \in 1..Len(log) : log[k].ev = "call" /\ log[k].tag = "call"
                                   /\ log[k].src.callee \in {"n", "m"} }

\* The machine has just executed the store a return statement was lowered to
JustStoredReturn ==
    /\ phase = "running"
    /\ cpu.pc > 1
    /\ LastLine.op = "store"
    /\ LastLine.tag = "assign"
    /\ LastLine.src = Var(RetVarName(fn.name))

ShadowDecl == fn.body[1].stmts[1]

\* The value of the initialiser where x is the parameter, as the type checker
\* binds it (the initialiser is checked before the name is defined)
OuterValue(e) ==
    IF e.k = "Var" THEN ParamValue("x")
    ELSE ParamValue("x") + IntValue(e.right.value)

\* C28: in `var x: T = e;` inside a block, where an outer x is visible, the
\* x of e is the outer x in the emitted code as it is for the type checker:
\* the variable declared holds the value of e computed from the parameter x,
\* which is what the call p(x) after the declaration receives.
C28_InitialiserSeesOuter ==
    (fn \in ShadowFns /\ phase \in {"running", "returned"} /\ log # <<>>) =>
        log[1].arg = OuterValue(ShadowDecl.init)

(***************************************************************************)
(* Folded quotients and remainders against cqo; idiv.                      *)
(***************************************************************************)
\* C29: for literals a and b, b not 0, of either sign, the value the type
\* checker folds for a / b and for a % b is the value the emitted code
\* leaves in rax for the same expression.
C29_FoldMatchesIdiv ==
    (fn \in FoldFns /\ phase = "returned" /\ typed.err = "none"
        /\ typed.ty.t = "int literal") =>
        cpu.regs["rax"] = IntValue(typed.ty.value)

(***************************************************************************)
(* Targets the type checker accepts against _emit_addr and _lvalue_type.   *)
(***************************************************************************)
\* C30: for a program that assigns to, or takes the address of, a target the
\* type checker accepts (a variable, a field of a struct-typed base, a
\* dereference, an index), the generator emits the address and finds the
\* width of the store: it raises no CodegenError.
C30_AcceptedTargetsEmit ==
    (fn \in AddrFns /\ phase = "emitted") => asm.err = "none"
====
